---- MODULE Spec2Model ----
(***************************************************************************)
(* Verification model of the TIME_EXP_PY perceptual-timing experiment:     *)
(* the block/trial sequencer (block_manager.py), the category decoder      *)
(* (exp_config.py), the moving point with its occlusion logic              *)
(* (moving_point.py) and the stop path of the driving loop (main.py).      *)
(*                                                                         *)
(* Conventions of the translation                                          *)
(*  - a Python str is a tuple of one-character strings, so that len(),     *)
(*    indexing and sorted() are modelled by what they do;                  *)
(*  - speeds are kept in hundredths of a pixel per frame (8.99 -> 899);    *)
(*  - a raised Python exception is recorded in an "err" field; the         *)
(*    assignments executed before the raise are kept.                      *)
(***************************************************************************)
EXTENDS Integers, Sequences, FiniteSets, TLC

VARIABLES
    trajectories_data,     \* BlockManager.trajectories_data: category -> number of stored trajectories
    blocks,                \* BlockManager.blocks: sequence of BlockConfig
    block_sequences,       \* BlockManager.block_sequences
    current_block_index,   \* BlockManager.current_block_index
    current_trial_index,   \* BlockManager.current_trial_index
    category_counters,     \* BlockManager.category_counters
    bm_call,               \* outcome of the last move_to_next_trial call
    category,              \* argument of decode_category
    decoded,               \* <<result>> of decode_category, <<>> before the call
    draw,                  \* used-trajectory bookkeeping of the randomized draw
    mp,                    \* the MovingPoint object (a record of its attributes)
    exp,                   \* the Experiment object and the components it owns
    traj,                  \* a Trajectory object and the outcome of its last call
    collector,             \* a DataCollector object and the outcome of its last call
    reproduction_task,     \* a ReproductionTask object and what its last handle_event returned
    timing_screen,         \* a TimingEstimationScreen object and what its last handle_event returned
    events,                \* the key-down events pygame.event.get() returned to the current pass of run()
    now                    \* pygame.time.get_ticks(), in ms

bmVars == <<trajectories_data, blocks, block_sequences, current_block_index,
            current_trial_index, category_counters, bm_call>>
decVars == <<category, decoded>>
apiVars == <<traj, collector, reproduction_task, timing_screen, events>>
vars == <<bmVars, decVars, draw, mp, exp, apiVars, now>>

\* the value of a component that a specification does not use
Unused == [unused |-> TRUE]

NoValue == "None"

----------------------------------------------------------------------------
(* Bounds of the model *)

\* largest number of trajectories stored under one category
MaxTraj == 2
\* largest number of blocks in the block list
MaxBlocks == 2
\* how many calls past the end of the experiment are explored
MaxOverrun == 2
\* longest category code handed to decode_category
MaxCodeLen == 7

----------------------------------------------------------------------------
(* Python strings *)

\* ord() of the characters that occur in the model
CharOrd(c) ==
    CASE c = "1" -> 49 [] c = "2" -> 50 [] c = "3" -> 51 [] c = "4" -> 52
      [] c = "A" -> 65 [] c = "B" -> 66 [] c = "C" -> 67 [] c = "D" -> 68
      [] c = "S" -> 83 [] OTHER -> 120

\* a < b for two Python strings (lexicographic by code point, a proper
\* prefix first)
StrLess(a, b) ==
    \E k \in 1..(Len(a) + 1) :
        /\ \A j \in 1..(k - 1) : j <= Len(b) /\ a[j] = b[j]
        /\ \/ k = Len(a) + 1 /\ k <= Len(b)
           \/ k <= Len(a) /\ k <= Len(b) /\ CharOrd(a[k]) < CharOrd(b[k])

\* sorted(keys): the keys in ascending order
RECURSIVE SortedKeys(_)
SortedKeys(S) ==
    IF S = {} THEN <<>>
    ELSE LET m == CHOOSE x \in S : \A y \in S \ {x} : StrLess(x, y)
         IN  <<m>> \o SortedKeys(S \ {m})

----------------------------------------------------------------------------
(* ExperimentConfig.decode_category *)

SlowSpeed == 899
FastSpeed == 1800
ShortDuration == 500
MiddleDuration == 1600
LongDuration == 2900

\* ExperimentConfig.available_speeds and available_durations
available_speeds == <<899, 1800>>
available_durations == <<500, 1600, 2900>>

get_default_parameters ==
    [task_index |-> 0, speed |-> SlowSpeed, duration |-> ShortDuration,
     decoded_category |-> <<"C", "1", "S", "1", "D", "1">>]

decode_task_index(task_type) ==
    IF task_type = "1" THEN 0
    ELSE IF task_type = "2" THEN 1
    ELSE IF task_type = "3" THEN 2
    ELSE 0

\* decode_speed reading "2" as the slow speed too
decode_speed_AlwaysSlow(speed_type) == SlowSpeed

decode_speed(speed_type) ==
    IF speed_type = "1" THEN SlowSpeed
    ELSE IF speed_type = "2" THEN FastSpeed
    ELSE SlowSpeed

decode_duration(duration_type) ==
    IF duration_type = "1" THEN ShortDuration
    ELSE IF duration_type = "2" THEN MiddleDuration
    ELSE IF duration_type = "3" THEN LongDuration
    ELSE ShortDuration

decode_category(cat) ==
    IF Len(cat) # 6 THEN get_default_parameters
    ELSE LET task_type == cat[2]
             speed_type == cat[4]
             duration_type == cat[6]
         IN  [task_index |-> decode_task_index(task_type),
              speed |-> decode_speed(speed_type),
              duration |-> decode_duration(duration_type),
              decoded_category |->
                  <<"C", task_type, "S", speed_type, "D", duration_type>>]

----------------------------------------------------------------------------
(* BlockManager *)

Sequential == <<"s", "e", "q", "u", "e", "n", "t", "i", "a", "l">>

\* category names that may occur in the trajectory library
CatPool ==
    { <<"A">>, <<"A", "B">>, <<"B">>, <<"C", "2", "S", "2", "D", "3">> }

\* the trajectory libraries of the model: any subset of the pool, each
\* category holding 0..MaxTraj trajectories
Libraries ==
    UNION { [cs -> 0..MaxTraj] : cs \in SUBSET CatPool }

\* BlockConfig.trajectories_category of the blocks of the model
BlockCategories == {Sequential, <<"A">>}

BlockLists ==
    UNION { [1..n -> [trajectories_category : BlockCategories]] : n \in 0..MaxBlocks }

\* MakeTrial numbering the trials within their category instead of within
\* the block
MakeTrial_PerCategoryOrder(cat, idx, emitted) ==
    LET decoded_params == decode_category(cat)
    IN  [task_type |-> decoded_params.task_index,
         speed |-> decoded_params.speed,
         duration |-> decoded_params.duration,
         trajectory_index |-> idx,
         actual_trajectory_category |-> cat,
         decoded_params |-> decoded_params,
         trial_in_block |-> idx + 1,
         display_order |-> idx + 1]

\* the trial dictionary built for trajectory number idx of a category,
\* appended when `emitted` trials are already in the list
MakeTrial(cat, idx, emitted) ==
    LET decoded_params == decode_category(cat)
    IN  [task_type |-> decoded_params.task_index,
         speed |-> decoded_params.speed,
         duration |-> decoded_params.duration,
         trajectory_index |-> idx,
         actual_trajectory_category |-> cat,
         decoded_params |-> decoded_params,
         trial_in_block |-> emitted + 1,
         display_order |-> emitted + 1]

\* the inner loop: for trajectory_idx in range(len(category_trajectories))
CategoryTrials(data, cat, emitted) ==
    [i \in 1..data[cat] |-> MakeTrial(cat, i - 1, emitted + i - 1)]

\* the outer loop over available_categories
RECURSIVE GenerateOver(_, _, _)
GenerateOver(data, cats, trials) ==
    IF cats = <<>> THEN trials
    ELSE GenerateOver(data, Tail(cats),
                      trials \o CategoryTrials(data, Head(cats), Len(trials)))

generate_sequential_trial_sequence(data) ==
    GenerateOver(data, SortedKeys(DOMAIN data), <<>>)

\* BlockManager.__init__: one sequence per block, whatever the block asks for
BuildBlockSequences(data, bl) ==
    [b \in 1..Len(bl) |-> generate_sequential_trial_sequence(data)]

\* the empty dictionary returned as a fallback
EmptyTrial == [empty |-> TRUE]

\* get_current_trial with the cursor at (bi, ti)
get_current_trial_at(bi, ti) ==
    IF /\ bi < Len(block_sequences)
       /\ ti < Len(block_sequences[bi + 1])
    THEN block_sequences[bi + 1][ti + 1]
    ELSE EmptyTrial

get_current_trial == get_current_trial_at(current_block_index, current_trial_index)

\* get_current_block with the cursor in block bi: a sequence holding the
\* block, empty for None
get_current_block_at(bi) ==
    IF bi < Len(blocks) THEN <<blocks[bi + 1]>> ELSE <<>>

\* is_experiment_complete with the cursor in block bi
is_experiment_complete_at(bi) == bi >= Len(blocks)

is_experiment_complete == is_experiment_complete_at(current_block_index)

\* BlockExhausted with > for >=
BlockExhausted_Strict(n, len) == n > len

\* the test `current_trial_index >= len(block_sequences[current_block_index])`
\* made after the increment; n is the incremented index
BlockExhausted(n, len) == n >= len

BMInit ==
    /\ trajectories_data \in Libraries
    /\ blocks \in BlockLists
    /\ block_sequences = BuildBlockSequences(trajectories_data, blocks)
    /\ current_block_index = 0
    /\ current_trial_index = 0
    /\ category_counters = [c \in DOMAIN trajectories_data |-> 0]
    /\ bm_call = [ret |-> NoValue, err |-> NoValue]
    /\ category = <<>>
    /\ decoded = <<>>
    /\ draw = Unused
    /\ mp = Unused
    /\ exp = Unused
    /\ traj = Unused
    /\ collector = Unused
    /\ reproduction_task = Unused
    /\ timing_screen = Unused
    /\ events = <<>>
    /\ now = 0

\* move_to_next_trial called with the cursor at (bi, ti): the new cursor,
\* the value returned and the exception raised
move_to_next_trial_from(bi, ti) ==
    IF bi >= Len(block_sequences)
    THEN \* block_sequences[current_block_index] raises IndexError after
         \* the increment of line 115
         [block |-> bi, trial |-> ti + 1, ret |-> NoValue, err |-> "IndexError"]
    ELSE IF BlockExhausted(ti + 1, Len(block_sequences[bi + 1]))
    THEN [block |-> bi + 1, trial |-> 0, ret |-> "True", err |-> NoValue]
    ELSE [block |-> bi, trial |-> ti + 1, ret |-> "False", err |-> NoValue]

move_to_next_trial ==
    /\ current_block_index < Len(blocks) + MaxOverrun
    /\ current_trial_index < MaxTraj * Cardinality(CatPool) + MaxOverrun
    /\ LET r == move_to_next_trial_from(current_block_index, current_trial_index)
       IN  /\ current_block_index' = r.block
           /\ current_trial_index' = r.trial
           /\ bm_call' = [ret |-> r.ret, err |-> r.err]
    /\ UNCHANGED <<trajectories_data, blocks, block_sequences, category_counters>>

BMNext == move_to_next_trial /\ UNCHANGED <<decVars, draw, mp, exp, apiVars, now>>

SpecBM == BMInit /\ [][BMNext]_vars

----------------------------------------------------------------------------
(* decode_category applied to bounded inputs *)

DecodeAlphabet == {"C", "1", "2", "3"}
TypeDigits == {"1", "2", "3", "4"}

\* every string over DecodeAlphabet of length 0..MaxCodeLen, and every
\* well-formed code "CxSyDz"
Codes ==
    UNION { [1..n -> DecodeAlphabet] : n \in 0..MaxCodeLen }
    \cup { <<"C", x, "S", y, "D", z>> : x \in TypeDigits, y \in TypeDigits, z \in TypeDigits }

DecodeInit ==
    /\ trajectories_data = <<>>
    /\ blocks = <<>>
    /\ block_sequences = <<>>
    /\ current_block_index = 0
    /\ current_trial_index = 0
    /\ category_counters = <<>>
    /\ bm_call = [ret |-> NoValue, err |-> NoValue]
    /\ category \in Codes
    /\ decoded = <<>>
    /\ draw = Unused
    /\ mp = Unused
    /\ exp = Unused
    /\ traj = Unused
    /\ collector = Unused
    /\ reproduction_task = Unused
    /\ timing_screen = Unused
    /\ events = <<>>
    /\ now = 0

Decode ==
    /\ decoded = <<>>
    /\ decoded' = <<decode_category(category)>>
    /\ UNCHANGED category

DecodeNext == Decode /\ UNCHANGED <<bmVars, draw, mp, exp, apiVars, now>>

SpecDecode == DecodeInit /\ [][DecodeNext]_vars

----------------------------------------------------------------------------
(* Randomized-with-distribution draw of trajectory indices.  The source    *)
(* keeps only its bookkeeping (category_counters,                          *)
(* get_used_trajectories_info); the draw itself is modelled from the       *)
(* specification, section 4.3.                                             *)

DrawCats == { <<"A">>, <<"A", "B">>, <<"B">> }

DrawLibraries ==
    UNION { [cs -> 0..MaxTraj] : cs \in SUBSET DrawCats }

\* DrawCandidates forgetting the used set
DrawCandidates_IgnoreUsed(n, usedset) == 0..(n - 1)

\* the pool of not-yet-used indices of a category holding n trajectories
DrawCandidates(n, usedset) == (0..(n - 1)) \ usedset

DrawInit ==
    /\ trajectories_data \in DrawLibraries
    /\ blocks = <<>>
    /\ block_sequences = <<>>
    /\ current_block_index = 0
    /\ current_trial_index = 0
    /\ category_counters = [c \in DOMAIN trajectories_data |-> 0]
    /\ bm_call = [ret |-> NoValue, err |-> NoValue]
    /\ category = <<>>
    /\ decoded = <<>>
    /\ draw = [used |-> [c \in DOMAIN trajectories_data |-> {}],
               drawn |-> [c \in DOMAIN trajectories_data |-> <<>>],
               last |-> -1]
    /\ mp = Unused
    /\ exp = Unused
    /\ traj = Unused
    /\ collector = Unused
    /\ reproduction_task = Unused
    /\ timing_screen = Unused
    /\ events = <<>>
    /\ now = 0

\* draw one trajectory index for a trial of category cat: an unused index,
\* marked used; on an exhausted pool the used set is reset and the draw
\* retried once, and an empty category falls back to index 0.
\* draw.drawn[cat] lists the indices drawn since the category's last reset.
DrawTrajectoryIndex(cat) ==
    LET n == trajectories_data[cat]
        fresh == DrawCandidates(n, draw.used[cat])
        retry == DrawCandidates(n, {})
    IN  /\ Len(draw.drawn[cat]) <= MaxTraj
        /\ IF fresh # {}
           THEN \E i \in fresh :
                    draw' = [used |-> [draw.used EXCEPT ![cat] = @ \cup {i}],
                             drawn |-> [draw.drawn EXCEPT ![cat] = Append(@, i)],
                             last |-> i]
           ELSE IF retry # {}
           THEN \E i \in retry :
                    draw' = [used |-> [draw.used EXCEPT ![cat] = {i}],
                             drawn |-> [draw.drawn EXCEPT ![cat] = <<i>>],
                             last |-> i]
           ELSE draw' = [draw EXCEPT !.last = 0]

\* the explicit reset of a category's used set
ResetUsedTrajectories(cat) ==
    /\ draw.used[cat] # {}
    /\ draw' = [used |-> [draw.used EXCEPT ![cat] = {}],
                drawn |-> [draw.drawn EXCEPT ![cat] = <<>>],
                last |-> -1]

DrawStep ==
    /\ \E cat \in DOMAIN trajectories_data : DrawTrajectoryIndex(cat)
    /\ UNCHANGED <<bmVars, decVars, mp, exp, apiVars, now>>

ResetStep ==
    /\ \E cat \in DOMAIN trajectories_data : ResetUsedTrajectories(cat)
    /\ UNCHANGED <<bmVars, decVars, mp, exp, apiVars, now>>

DrawNext == DrawStep \/ ResetStep

SpecDraw == DrawInit /\ [][DrawNext]_vars

----------------------------------------------------------------------------
(* Exact arithmetic: a Python float is modelled by the rational <<n, d>>   *)
(* (d > 0, lowest terms) it stands for.                                    *)

Abs(x) == IF x < 0 THEN -x ELSE x

RECURSIVE GCD(_, _)
GCD(a, b) == IF b = 0 THEN a ELSE GCD(b, a % b)

Rat(n, d) ==
    LET g == GCD(Abs(n), d) IN <<n \div g, d \div g>>

Zero == <<0, 1>>
One == <<1, 1>>
Half == <<1, 2>>
TwoThirds == <<2, 3>>

RatAdd(a, b) == Rat(a[1] * b[2] + b[1] * a[2], a[2] * b[2])
RatSub(a, b) == Rat(a[1] * b[2] - b[1] * a[2], a[2] * b[2])
RatMul(a, b) == Rat(a[1] * b[1], a[2] * b[2])
RatLess(a, b) == a[1] * b[2] < b[1] * a[2]
RatGeq(a, b) == ~RatLess(a, b)

----------------------------------------------------------------------------
(* Trajectory and MovingPoint *)

\* MovingPoint.finished_delay and the default occlusion_delay, in ms
FinishedDelay == 900
OcclusionDelay == 500

\* the clock advances in steps of ClockStep ms up to MaxTime
ClockStep == 450
MaxTime == 900

\* movement_start_time is None
NoTime == -1

\* point lists of the model: none, one point, one segment, two segments,
\* a path that starts with a segment of length 0 and a path whose last point
\* is given three times
TrajPool ==
    { <<>>,
      << <<0, 0>> >>,
      << <<0, 0>>, <<4, 0>> >>,
      << <<0, 0>>, <<2, 0>>, <<2, 4>> >>,
      << <<1, 1>>, <<1, 1>>, <<3, 1>> >>,
      << <<0, 0>>, <<2, 0>>, <<2, 0>>, <<2, 0>> >> }

\* speeds in pixels per frame
SpeedPool == { <<1, 1>>, <<3, 1>> }

OcclusionTypes == {"half", "third", "timed"}

\* occlusion_range values: [0.5, 1.0], [0.0, 1.0] and an empty list
RangePool == { <<Half, One>>, <<Zero, One>>, <<>> }

\* arguments of set_occlusion_zone
ZonePool ==
    { [start_segment |-> 0, start_progress |-> Zero,
       end_segment |-> 0, end_progress |-> Half],
      [start_segment |-> 1, start_progress |-> Half,
       end_segment |-> 1, end_progress |-> One] }

\* a trajectory point as a pair of floats
Pt(p) == << <<p[1], 1>>, <<p[2], 1>> >>

\* Euclidean length of a segment (the segments of the model have integer
\* lengths)
segment_length(p1, p2) ==
    LET dx == p2[1] - p1[1]
        dy == p2[2] - p1[2]
    IN  CHOOSE r \in 0..(Abs(dx) + Abs(dy)) : r * r = dx * dx + dy * dy

RECURSIVE LengthFrom(_, _)
LengthFrom(points, i) ==
    IF i >= Len(points) THEN 0
    ELSE segment_length(points[i], points[i + 1]) + LengthFrom(points, i + 1)

\* Trajectory._calculate_total_length
total_length(points) ==
    IF Len(points) < 2 THEN 0 ELSE LengthFrom(points, 1)

interpolate_points(p1, p2, progress) ==
    << RatAdd(<<p1[1], 1>>, RatMul(<<p2[1] - p1[1], 1>>, progress)),
       RatAdd(<<p1[2], 1>>, RatMul(<<p2[2] - p1[2], 1>>, progress)) >>

\* the loop of _find_segment_and_progress from segment seg (0-based) on
RECURSIVE FindFrom(_, _, _, _)
FindFrom(points, seg, current_length, target_length) ==
    IF seg > Len(points) - 2
    THEN [segment |-> Len(points) - 2, progress |-> One, err |-> NoValue]
    ELSE LET sl == segment_length(points[seg + 1], points[seg + 2]) IN
         IF RatGeq(<<current_length + sl, 1>>, target_length)
         THEN IF sl = 0
              THEN [segment |-> seg, progress |-> Zero, err |-> "ZeroDivisionError"]
              ELSE [segment |-> seg,
                    progress |-> RatMul(RatSub(target_length, <<current_length, 1>>),
                                        <<1, sl>>),
                    err |-> NoValue]
         ELSE FindFrom(points, seg + 1, current_length + sl, target_length)

find_segment_and_progress(points, target_progress) ==
    IF Len(points) < 2
    THEN [segment |-> 0, progress |-> Zero, err |-> NoValue]
    ELSE FindFrom(points, 0, 0,
                  RatMul(<<total_length(points), 1>>, target_progress))

\* the [start, end] fractions _setup_automatic_occlusion works with
OcclusionFractions(m) ==
    IF Len(m.occlusion_range) = 2 THEN m.occlusion_range
    ELSE IF m.occlusion_type = "half" THEN <<Half, One>>
    ELSE IF m.occlusion_type = "third" THEN <<TwoThirds, One>>
    ELSE <<Half, One>>

setup_automatic_occlusion(m) ==
    IF Len(m.trajectory) - 1 <= 0 THEN m
    ELSE IF m.occlusion_type = "timed"
    THEN [m EXCEPT !.occlusion_enabled = TRUE]
    ELSE LET fr == OcclusionFractions(m)
             s == find_segment_and_progress(m.trajectory, fr[1])
             e == find_segment_and_progress(m.trajectory, fr[2])
             m1 == [m EXCEPT !.occlusion_start_segment = s.segment,
                             !.occlusion_start_progress = s.progress]
         IN  IF s.err # NoValue THEN [m EXCEPT !.err = s.err]
             ELSE IF e.err # NoValue THEN [m1 EXCEPT !.err = e.err]
             ELSE [m1 EXCEPT !.occlusion_end_segment = e.segment,
                             !.occlusion_end_progress = e.progress,
                             !.occlusion_enabled = TRUE]

\* MovingPoint.__init__
NewMovingPoint(trajectory, speed, occlusion_type, occlusion_range, occlusion_delay) ==
    setup_automatic_occlusion(
        [trajectory |-> trajectory,
         speed |-> speed,
         current_segment |-> 0,
         progress |-> Zero,
         current_position |->
             IF Len(trajectory) > 0 THEN Pt(trajectory[1]) ELSE Pt(<<0, 0>>),
         is_moving |-> TRUE,
         is_finished |-> FALSE,
         finished_timer |-> 0,
         finished_delay |-> FinishedDelay,
         stopped_by_user |-> FALSE,
         occlusion_enabled |-> TRUE,
         occlusion_type |-> occlusion_type,
         occlusion_range |->
             IF occlusion_range = <<>> THEN <<Half, One>> ELSE occlusion_range,
         occlusion_start_segment |-> 0,
         occlusion_start_progress |-> Zero,
         occlusion_end_segment |-> 0,
         occlusion_end_progress |-> One,
         is_visible |-> TRUE,
         occlusion_delay |-> occlusion_delay,
         movement_start_time |-> NoTime,
         occlusion_started |-> FALSE,
         occlusion_active |-> FALSE,
         err |-> NoValue])

set_occlusion_type(m, occlusion_type) ==
    setup_automatic_occlusion([m EXCEPT !.occlusion_type = occlusion_type])

set_occlusion_range(m, occlusion_range) ==
    setup_automatic_occlusion([m EXCEPT !.occlusion_range = occlusion_range])

set_occlusion_zone(m, z) ==
    [m EXCEPT !.occlusion_enabled = TRUE,
              !.occlusion_start_segment = z.start_segment,
              !.occlusion_start_progress = z.start_progress,
              !.occlusion_end_segment = z.end_segment,
              !.occlusion_end_progress = z.end_progress]

disable_occlusion(m) ==
    [m EXCEPT !.occlusion_enabled = FALSE,
              !.is_visible = TRUE,
              !.occlusion_active = FALSE]

start_movement(m, t) ==
    [m EXCEPT !.movement_start_time = t,
              !.occlusion_started = FALSE,
              !.occlusion_active = FALSE]

is_position_in_range(current_segment, current_progress, start_segment, start_progress, end_segment, end_progress) ==
    IF current_segment < start_segment THEN FALSE
    ELSE IF current_segment > end_segment THEN FALSE
    ELSE IF current_segment = start_segment /\ RatLess(current_progress, start_progress)
    THEN FALSE
    ELSE IF current_segment = end_segment /\ RatLess(end_progress, current_progress)
    THEN FALSE
    ELSE TRUE

Shown(m) == [m EXCEPT !.is_visible = TRUE, !.occlusion_active = FALSE]
Hidden(m) == [m EXCEPT !.is_visible = FALSE, !.occlusion_active = TRUE]

\* _update_visibility measuring the delay from tick 0 instead of from
\* movement_start_time
update_visibility_DelayFromZero(m, t) ==
    IF ~m.occlusion_enabled THEN Shown(m)
    ELSE IF m.occlusion_type = "timed"
    THEN IF m.movement_start_time = NoTime THEN Shown(m)
         ELSE IF t >= m.occlusion_delay /\ ~m.occlusion_started
         THEN [Hidden(m) EXCEPT !.occlusion_started = TRUE]
         ELSE IF m.occlusion_started THEN Hidden(m)
         ELSE Shown(m)
    ELSE IF is_position_in_range(m.current_segment, m.progress,
                                 m.occlusion_start_segment, m.occlusion_start_progress,
                                 m.occlusion_end_segment, m.occlusion_end_progress)
    THEN Hidden(m)
    ELSE Shown(m)

update_visibility(m, t) ==
    IF ~m.occlusion_enabled THEN Shown(m)
    ELSE IF m.occlusion_type = "timed"
    THEN IF m.movement_start_time = NoTime THEN Shown(m)
         ELSE IF t - m.movement_start_time >= m.occlusion_delay /\ ~m.occlusion_started
         THEN [Hidden(m) EXCEPT !.occlusion_started = TRUE]
         ELSE IF m.occlusion_started THEN Hidden(m)
         ELSE Shown(m)
    ELSE IF is_position_in_range(m.current_segment, m.progress,
                                 m.occlusion_start_segment, m.occlusion_start_progress,
                                 m.occlusion_end_segment, m.occlusion_end_progress)
    THEN Hidden(m)
    ELSE Shown(m)

finish_movement(m, t) ==
    LET m1 == [m EXCEPT !.is_moving = FALSE,
                        !.is_finished = TRUE,
                        !.finished_timer = t]
    IN  IF Len(m.trajectory) = 0
        THEN [m1 EXCEPT !.err = "IndexError"]
        ELSE [m1 EXCEPT !.current_position = Pt(m.trajectory[Len(m.trajectory)]),
                        !.is_visible = TRUE,
                        !.occlusion_active = FALSE]

update(m, t) ==
    IF ~m.is_moving \/ m.is_finished THEN m
    ELSE IF m.current_segment >= Len(m.trajectory) - 1 THEN finish_movement(m, t)
    ELSE LET v == update_visibility(m, t)
             points == m.trajectory
             sl == segment_length(points[v.current_segment + 1],
                                  points[v.current_segment + 2])
             prog == IF sl > 0 THEN RatAdd(v.progress, RatMul(v.speed, <<1, sl>>))
                     ELSE One
             nxt == [v EXCEPT !.current_segment = @ + 1, !.progress = Zero]
         IN  IF RatGeq(prog, One)
             THEN IF nxt.current_segment >= Len(points) - 1
                  THEN finish_movement(nxt, t)
                  ELSE [nxt EXCEPT !.current_position =
                            interpolate_points(points[nxt.current_segment + 1],
                                               points[nxt.current_segment + 2], Zero)]
             ELSE [v EXCEPT !.progress = prog,
                            !.current_position =
                                interpolate_points(points[v.current_segment + 1],
                                                   points[v.current_segment + 2], prog)]

\* stop_by_user showing the point whatever occlusion_active is
stop_by_user_AlwaysVisible(m, t) ==
    IF m.is_moving /\ ~m.is_finished
    THEN [m EXCEPT !.is_moving = FALSE,
                   !.is_finished = TRUE,
                   !.finished_timer = t,
                   !.stopped_by_user = TRUE,
                   !.is_visible = TRUE]
    ELSE m

\* stop_by_user marking the stop without halting the point: is_moving and
\* is_finished stay as they are
stop_by_user_KeepsMoving(m, t) ==
    IF m.is_moving /\ ~m.is_finished
    THEN [m EXCEPT !.finished_timer = t,
                   !.stopped_by_user = TRUE,
                   !.is_visible = ~m.occlusion_active]
    ELSE m

stop_by_user(m, t) ==
    IF m.is_moving /\ ~m.is_finished
    THEN [m EXCEPT !.is_moving = FALSE,
                   !.is_finished = TRUE,
                   !.finished_timer = t,
                   !.stopped_by_user = TRUE,
                   !.is_visible = ~m.occlusion_active]
    ELSE m

\* should_switch_to_next asking for more than finished_delay ms
should_switch_to_next_After(m, t) ==
    IF m.is_finished THEN t - m.finished_timer > m.finished_delay ELSE FALSE

should_switch_to_next(m, t) ==
    IF m.is_finished THEN t - m.finished_timer >= m.finished_delay ELSE FALSE

reset(m, new_trajectory) ==
    setup_automatic_occlusion(
        [m EXCEPT !.trajectory = new_trajectory,
                  !.current_segment = 0,
                  !.progress = Zero,
                  !.current_position =
                      IF Len(new_trajectory) > 0 THEN Pt(new_trajectory[1])
                      ELSE Pt(<<0, 0>>),
                  !.is_moving = TRUE,
                  !.is_finished = FALSE,
                  !.finished_timer = 0,
                  !.stopped_by_user = FALSE,
                  !.movement_start_time = NoTime,
                  !.occlusion_started = FALSE,
                  !.occlusion_active = FALSE,
                  !.occlusion_enabled = TRUE,
                  !.is_visible = TRUE])

\* the object at the start of a call: no exception raised yet
Called == [mp EXCEPT !.err = NoValue]

MPInit ==
    /\ trajectories_data = <<>>
    /\ blocks = <<>>
    /\ block_sequences = <<>>
    /\ current_block_index = 0
    /\ current_trial_index = 0
    /\ category_counters = <<>>
    /\ bm_call = [ret |-> NoValue, err |-> NoValue]
    /\ category = <<>>
    /\ decoded = <<>>
    /\ draw = Unused
    /\ mp \in { NewMovingPoint(tr, sp, ty, rg, OcclusionDelay) :
                    tr \in TrajPool, sp \in SpeedPool,
                    ty \in OcclusionTypes, rg \in RangePool }
    /\ mp.err = NoValue
    /\ exp = Unused
    /\ traj = Unused
    /\ collector = Unused
    /\ reproduction_task = Unused
    /\ timing_screen = Unused
    /\ events = <<>>
    /\ now = 0

notMP == <<bmVars, decVars, draw, exp, apiVars>>

MPReset ==
    /\ \E tr \in TrajPool : mp' = reset(Called, tr)
    /\ UNCHANGED <<notMP, now>>

MPStartMovement ==
    /\ mp' = start_movement(Called, now)
    /\ UNCHANGED <<notMP, now>>

MPUpdate ==
    /\ mp' = update(Called, now)
    /\ UNCHANGED <<notMP, now>>

MPStopByUser ==
    /\ mp' = stop_by_user(Called, now)
    /\ UNCHANGED <<notMP, now>>

MPSetOcclusionType ==
    /\ \E ty \in OcclusionTypes : mp' = set_occlusion_type(Called, ty)
    /\ UNCHANGED <<notMP, now>>

MPSetOcclusionRange ==
    /\ \E rg \in RangePool : mp' = set_occlusion_range(Called, rg)
    /\ UNCHANGED <<notMP, now>>

MPSetOcclusionZone ==
    /\ \E z \in ZonePool : mp' = set_occlusion_zone(Called, z)
    /\ UNCHANGED <<notMP, now>>

MPDisableOcclusion ==
    /\ mp' = disable_occlusion(Called)
    /\ UNCHANGED <<notMP, now>>

Tick ==
    /\ now < MaxTime
    /\ now' = now + ClockStep
    /\ UNCHANGED <<notMP, mp>>

MPNext ==
    \/ MPReset
    \/ MPStartMovement
    \/ MPUpdate
    \/ MPStopByUser
    \/ MPSetOcclusionType
    \/ MPSetOcclusionRange
    \/ MPSetOcclusionZone
    \/ MPDisableOcclusion
    \/ Tick

SpecMP == MPInit /\ [][MPNext]_vars

----------------------------------------------------------------------------
(* The Experiment object of main.py with the components it owns.           *)
(* main.py calls three things that no file of the sources defines:         *)
(* MovingPoint.start_movement_with_delay / is_in_start_delay / start_delay *)
(* (modelled after the StartDelay state of the trial state machine and     *)
(* after ReproductionTask's own start delay), the "block_name" entry of a  *)
(* trial dictionary (the outcome of the trajectory look-up is therefore an *)
(* input) and two keyword arguments of the DataCollector (start_delay is   *)
(* stored in the record, was_visible is not stored).                       *)

\* self.moving_point is None
NoPoint == [none |-> TRUE]

\* a key that a dictionary does not hold
Missing == -2

\* the two start delays, in ms
StartDelays == {200, 400}

\* the clock of the experiment advances in steps of ExpClockStep ms up to
\* ExpMaxTime
ExpClockStep == 500
ExpMaxTime == 1500

\* ExperimentConfig.get_current_task_config
get_current_task_config(task_index) ==
    IF task_index = 0
    THEN [has_trajectory |-> TRUE, occlusion_enabled |-> TRUE,
          occlusion_type |-> "timed", occlusion_range |-> <<Half, One>>,
          timing_estimation |-> FALSE, reproduction_task |-> FALSE]
    ELSE IF task_index = 1
    THEN [has_trajectory |-> TRUE, occlusion_enabled |-> FALSE,
          occlusion_type |-> "half", occlusion_range |-> <<Half, One>>,
          timing_estimation |-> TRUE, reproduction_task |-> FALSE]
    ELSE IF task_index = 2
    THEN [has_trajectory |-> FALSE, occlusion_enabled |-> FALSE,
          occlusion_type |-> "half", occlusion_range |-> <<Half, One>>,
          timing_estimation |-> FALSE, reproduction_task |-> TRUE]
    ELSE [has_trajectory |-> TRUE, occlusion_enabled |-> TRUE,
          occlusion_type |-> "half", occlusion_range |-> <<Half, One>>,
          timing_estimation |-> FALSE, reproduction_task |-> FALSE]

\* truth value of a time stamp that may be None: `if d["..."]:`
Truthy(x) == x # NoTime /\ x # 0

\* DataCollector.current_trial_data == {}
EmptyRecord ==
    [trial_number |-> Missing, block_number |-> Missing,
     display_order |-> Missing, condition_type |-> "Missing",
     start_delay |-> Missing, start_time |-> Missing,
     movement_start_time |-> Missing, stimulus_start_time |-> Missing,
     movement_end_time |-> Missing,
     occlusion_start_time |-> Missing,
     actual_response_time_movement |-> Missing,
     space_press_time |-> Missing, reaction_time |-> Missing,
     stopped_by_user |-> "Missing", completed_normally |-> "Missing",
     actual_trajectory_duration |-> Missing,
     timing_estimation |-> Missing, reproduction_results |-> Missing]

\* DataCollector.__init__
NewDataCollector(block_number) ==
    [block_number |-> block_number,
     current_trial_data |-> EmptyRecord,
     all_trials_data |-> <<>>,
     trial_number |-> 0]

\* DataCollector.start_new_trial; the fields that only copy configuration
\* values into the record (trajectory_type, duration, speed, ...) are not
\* kept
dc_start_new_trial(dc, condition_type, block_number, display_order, start_delay, t) ==
    [dc EXCEPT !.trial_number = @ + 1,
               !.current_trial_data =
                   [trial_number |-> dc.trial_number + 1,
                    block_number |-> block_number,
                    display_order |-> display_order,
                    condition_type |-> condition_type,
                    start_delay |-> start_delay,
                    start_time |-> t,
                    movement_start_time |-> NoTime,
                    stimulus_start_time |-> NoTime,
                    movement_end_time |-> NoTime,
                    occlusion_start_time |-> NoTime,
                    actual_response_time_movement |-> NoTime,
                    space_press_time |-> NoTime,
                    reaction_time |-> NoTime,
                    stopped_by_user |-> "False",
                    completed_normally |-> "False",
                    actual_trajectory_duration |-> NoTime,
                    timing_estimation |-> NoTime,
                    reproduction_results |-> NoTime]]

record_movement_start(dc, t) ==
    [dc EXCEPT !.current_trial_data.movement_start_time = t]

record_movement_end(dc, t) ==
    [dc EXCEPT !.current_trial_data.movement_end_time = t]

record_occlusion_start(dc, t) ==
    [dc EXCEPT !.current_trial_data.occlusion_start_time = t]

record_trajectory_duration(dc, actual_duration) ==
    [dc EXCEPT !.current_trial_data.actual_trajectory_duration = actual_duration]

record_timing_estimation(dc, estimated_duration) ==
    [dc EXCEPT !.current_trial_data.timing_estimation = estimated_duration]

record_reproduction_results(dc, reproduced_duration) ==
    [dc EXCEPT !.current_trial_data.reproduction_results = reproduced_duration]

\* DataCollector.record_space_press: the new collector and the exception
\* raised (a KeyError when the record has no movement_start_time or no
\* stimulus_start_time); stimulus_start_time is never set by main.py
record_space_press(dc, stopped, t) ==
    LET r1 == [dc.current_trial_data EXCEPT !.space_press_time = t,
                                            !.stopped_by_user = stopped]
        mst == r1.movement_start_time
        r2 == IF Truthy(mst)
              THEN [r1 EXCEPT !.actual_response_time_movement = t - mst]
              ELSE r1
        r3 == [r2 EXCEPT !.reaction_time = IF Truthy(mst) THEN t - mst ELSE NoTime]
    IN  IF mst = Missing
        THEN [dc |-> [dc EXCEPT !.current_trial_data = r1], err |-> "KeyError"]
        ELSE IF r1.stimulus_start_time = Missing
        THEN [dc |-> [dc EXCEPT !.current_trial_data = r2], err |-> "KeyError"]
        ELSE [dc |-> [dc EXCEPT !.current_trial_data = r3], err |-> NoValue]

\* complete_trial without the fallback that fills an unset movement_end_time
complete_trial_NoFallback(dc, completed_normally, t) ==
    LET r1 == [dc.current_trial_data EXCEPT !.completed_normally = completed_normally]
    IN  IF completed_normally = "True" /\ r1.movement_end_time = Missing
        THEN [dc |-> [dc EXCEPT !.current_trial_data = r1], err |-> "KeyError"]
        ELSE [dc |-> [dc EXCEPT !.current_trial_data = r1,
                                !.all_trials_data = Append(@, r1)],
              err |-> IF r1.trial_number = Missing THEN "KeyError" ELSE NoValue]

\* complete_trial replacing the last record when it belongs to the trial
\* that is completed again
complete_trial_ReplacesLast(dc, completed_normally, t) ==
    LET r1 == [dc.current_trial_data EXCEPT !.completed_normally = completed_normally]
        all == dc.all_trials_data
    IN  IF completed_normally = "True" /\ r1.movement_end_time = Missing
        THEN [dc |-> [dc EXCEPT !.current_trial_data = r1], err |-> "KeyError"]
        ELSE LET r2 == IF completed_normally = "True" /\ ~Truthy(r1.movement_end_time)
                       THEN [r1 EXCEPT !.movement_end_time = t]
                       ELSE r1
             IN  [dc |-> [dc EXCEPT !.current_trial_data = r2,
                                    !.all_trials_data =
                                        IF all # <<>> /\ all[Len(all)].trial_number = r2.trial_number
                                        THEN [all EXCEPT ![Len(all)] = r2]
                                        ELSE Append(all, r2)],
                  err |-> IF r2.trial_number = Missing THEN "KeyError" ELSE NoValue]

\* complete_trial that closes the record without appending it to the history
complete_trial_NotAppended(dc, completed_normally, t) ==
    LET r1 == [dc.current_trial_data EXCEPT !.completed_normally = completed_normally]
    IN  IF completed_normally = "True" /\ r1.movement_end_time = Missing
        THEN [dc |-> [dc EXCEPT !.current_trial_data = r1], err |-> "KeyError"]
        ELSE [dc |-> [dc EXCEPT !.current_trial_data = r1],
              err |-> IF r1.trial_number = Missing THEN "KeyError" ELSE NoValue]

\* DataCollector.complete_trial: the new collector and the exception raised
\* (a KeyError when completed_normally is true and the record has no
\* movement_end_time, and, after the record is appended, when
\* _print_trial_summary finds no trial_number in it)
complete_trial(dc, completed_normally, t) ==
    LET r1 == [dc.current_trial_data EXCEPT !.completed_normally = completed_normally]
    IN  IF completed_normally = "True" /\ r1.movement_end_time = Missing
        THEN [dc |-> [dc EXCEPT !.current_trial_data = r1], err |-> "KeyError"]
        ELSE LET r2 == IF completed_normally = "True" /\ ~Truthy(r1.movement_end_time)
                       THEN [r1 EXCEPT !.movement_end_time = t]
                       ELSE r1
             IN  [dc |-> [dc EXCEPT !.current_trial_data = r2,
                                    !.all_trials_data = Append(@, r2)],
                  err |-> IF r2.trial_number = Missing THEN "KeyError" ELSE NoValue]

\* DataCollector.reset_block
reset_block(dc, new_block_number) ==
    [block_number |-> new_block_number,
     current_trial_data |-> EmptyRecord,
     all_trials_data |-> <<>>,
     trial_number |-> 0]

\* TimingEstimationScreen.__init__
NewTimingScreen ==
    [is_active |-> FALSE, start_time |-> 0, space_pressed |-> FALSE,
     press_time |-> 0, actual_duration |-> 0]

\* TimingEstimationScreen.activate
timing_activate(ts, actual_duration, t) ==
    [is_active |-> TRUE, start_time |-> t, space_pressed |-> FALSE,
     press_time |-> 0, actual_duration |-> actual_duration]

\* handle_event counting every space key-down of the active screen: a later
\* press overwrites press_time
timing_handle_event_EveryPress(ts, t) ==
    IF ts.is_active
    THEN [ts |-> [ts EXCEPT !.space_pressed = TRUE,
                            !.press_time = t - ts.start_time],
          ret |-> TRUE]
    ELSE [ts |-> ts, ret |-> FALSE]

\* TimingEstimationScreen.handle_event for a space key-down: the new screen
\* and the value returned
timing_handle_event(ts, t) ==
    IF ts.is_active /\ ~ts.space_pressed
    THEN [ts |-> [ts EXCEPT !.space_pressed = TRUE,
                            !.press_time = t - ts.start_time],
          ret |-> TRUE]
    ELSE [ts |-> ts, ret |-> FALSE]

\* TimingEstimationScreen.deactivate
timing_deactivate(ts) == [ts EXCEPT !.is_active = FALSE]

\* TimingEstimationScreen.get_results; the ratio is an exact fraction
timing_get_results(ts) ==
    [actual_duration |-> ts.actual_duration,
     estimated_duration |-> ts.press_time,
     estimation_error |-> ts.press_time - ts.actual_duration,
     estimation_error_abs |-> Abs(ts.press_time - ts.actual_duration),
     estimation_ratio |-> IF ts.actual_duration > 0
                          THEN Rat(ts.press_time, ts.actual_duration)
                          ELSE Zero]

\* ReproductionTask.__init__
NewReproductionTask ==
    [is_active |-> FALSE, state |-> "inactive", state_start_time |-> 0,
     target_duration |-> 0, response_time |-> 0, space_pressed |-> FALSE,
     start_delay |-> 0, in_start_delay |-> FALSE, delay_start_time |-> 0]

\* activate that starts the task again without clearing the answer of the
\* run before: space_pressed, response_time and start_delay are left
reproduction_activate_KeepsAnswer(rt, target_duration, t) ==
    [rt EXCEPT !.is_active = TRUE,
               !.state = "first_cross_waiting",
               !.state_start_time = t,
               !.target_duration = target_duration,
               !.in_start_delay = FALSE]

\* ReproductionTask.activate
reproduction_activate(rt, target_duration, t) ==
    [rt EXCEPT !.is_active = TRUE,
               !.state = "first_cross_waiting",
               !.state_start_time = t,
               !.target_duration = target_duration,
               !.space_pressed = FALSE,
               !.response_time = 0,
               !.in_start_delay = FALSE,
               !.start_delay = 0]

\* handle_event measuring the response from the moment the second cross was
\* shown: state_start_time is not set when response_waiting is entered
reproduction_handle_event_FromSecondCross(rt, delay, t) ==
    IF ~rt.is_active THEN [rt |-> rt, ret |-> FALSE]
    ELSE IF rt.state = "first_cross_waiting"
    THEN [rt |-> [rt EXCEPT !.start_delay = delay,
                            !.delay_start_time = t,
                            !.state = "in_start_delay"],
          ret |-> FALSE]
    ELSE IF rt.state = "second_cross_waiting"
    THEN [rt |-> [rt EXCEPT !.state = "response_waiting"], ret |-> FALSE]
    ELSE IF rt.state = "response_waiting" /\ ~rt.space_pressed
    THEN [rt |-> [rt EXCEPT !.space_pressed = TRUE,
                            !.response_time = t - rt.state_start_time],
          ret |-> TRUE]
    ELSE [rt |-> rt, ret |-> FALSE]

\* handle_event taking the space key in every state: a key during the start
\* delay or the circle moves the task on as well
reproduction_handle_event_AnyState(rt, delay, t) ==
    IF ~rt.is_active THEN [rt |-> rt, ret |-> FALSE]
    ELSE IF rt.state = "first_cross_waiting"
    THEN [rt |-> [rt EXCEPT !.start_delay = delay,
                            !.delay_start_time = t,
                            !.state = "in_start_delay"],
          ret |-> FALSE]
    ELSE IF rt.state = "in_start_delay"
    THEN [rt |-> [rt EXCEPT !.state = "first_circle_auto",
                            !.state_start_time = t],
          ret |-> FALSE]
    ELSE IF rt.state \in {"first_circle_auto", "second_cross_waiting"}
    THEN [rt |-> [rt EXCEPT !.state = "response_waiting",
                            !.state_start_time = t],
          ret |-> FALSE]
    ELSE IF rt.state = "response_waiting" /\ ~rt.space_pressed
    THEN [rt |-> [rt EXCEPT !.space_pressed = TRUE,
                            !.response_time = t - rt.state_start_time],
          ret |-> TRUE]
    ELSE [rt |-> rt, ret |-> FALSE]

\* ReproductionTask.handle_event for a space key-down: the new task and the
\* value returned
reproduction_handle_event(rt, delay, t) ==
    IF ~rt.is_active THEN [rt |-> rt, ret |-> FALSE]
    ELSE IF rt.state = "first_cross_waiting"
    THEN [rt |-> [rt EXCEPT !.start_delay = delay,
                            !.delay_start_time = t,
                            !.state = "in_start_delay"],
          ret |-> FALSE]
    ELSE IF rt.state = "second_cross_waiting"
    THEN [rt |-> [rt EXCEPT !.state = "response_waiting",
                            !.state_start_time = t],
          ret |-> FALSE]
    ELSE IF rt.state = "response_waiting" /\ ~rt.space_pressed
    THEN [rt |-> [rt EXCEPT !.space_pressed = TRUE,
                            !.response_time = t - rt.state_start_time],
          ret |-> TRUE]
    ELSE [rt |-> rt, ret |-> FALSE]

\* ReproductionTask.update leaving the circle on the first update after it is
\* shown, without waiting for target_duration
reproduction_update_NoWait(rt, t) ==
    IF ~rt.is_active THEN rt
    ELSE IF rt.state = "in_start_delay"
    THEN IF t - rt.delay_start_time >= rt.start_delay
         THEN [rt EXCEPT !.state = "first_circle_auto",
                         !.state_start_time = t,
                         !.in_start_delay = FALSE]
         ELSE rt
    ELSE IF rt.state = "first_circle_auto"
    THEN [rt EXCEPT !.state = "second_cross_waiting",
                    !.state_start_time = t]
    ELSE rt

\* ReproductionTask.update
reproduction_update(rt, t) ==
    IF ~rt.is_active THEN rt
    ELSE IF rt.state = "in_start_delay"
    THEN IF t - rt.delay_start_time >= rt.start_delay
         THEN [rt EXCEPT !.state = "first_circle_auto",
                         !.state_start_time = t,
                         !.in_start_delay = FALSE]
         ELSE rt
    ELSE IF rt.state = "first_circle_auto"
    THEN IF t - rt.state_start_time >= rt.target_duration
         THEN [rt EXCEPT !.state = "second_cross_waiting",
                         !.state_start_time = t]
         ELSE rt
    ELSE rt

\* ReproductionTask.deactivate
reproduction_deactivate(rt) ==
    [rt EXCEPT !.is_active = FALSE, !.state = "inactive"]

\* the start-delay attributes main.py reads from the moving point
NewPointDelay ==
    [start_delay |-> 0, is_in_start_delay |-> FALSE, delay_start_time |-> 0]

----------------------------------------------------------------------------
(* The methods of Experiment and KeyHandler.  A world W is the record      *)
(* [e, m, bi, ti]: the Experiment, its moving point and the cursor of the   *)
(* BlockManager; every method maps a world to the world it leaves.         *)

\* an exception leaves the method
Raise(W, name) == [W EXCEPT !.e.err = name]

\* the moving point after a call of one of its methods
WithPoint(W, m2) ==
    IF m2.err # NoValue
    THEN [W EXCEPT !.m = m2, !.e.err = m2.err]
    ELSE [W EXCEPT !.m = m2]

\* BlockManager.get_progress_info (the keys main.py stores in a record)
get_progress_info_at(bi, ti) ==
    IF is_experiment_complete_at(bi)
    THEN [block_number |-> Len(blocks), trial_in_block |-> 0, display_order |-> 0]
    ELSE IF get_current_block_at(bi) = <<>> \/ get_current_trial_at(bi, ti) = EmptyTrial
    THEN [block_number |-> 0, trial_in_block |-> 0, display_order |-> 0]
    ELSE [block_number |-> bi + 1,
          trial_in_block |-> get_current_trial_at(bi, ti).trial_in_block,
          display_order |-> get_current_trial_at(bi, ti).display_order]

update_progress_info(W) ==
    IF is_experiment_complete_at(W.bi)
    THEN [W EXCEPT !.e.progress_info =
                       <<[block_number |-> 0, trial_in_block |-> 0, display_order |-> 0]>>,
                   !.e.current_block = <<>>,
                   !.e.current_trial = EmptyTrial]
    ELSE [W EXCEPT !.e.progress_info = <<get_progress_info_at(W.bi, W.ti)>>,
                   !.e.current_block = get_current_block_at(W.bi),
                   !.e.current_trial = get_current_trial_at(W.bi, W.ti)]

\* the speed of a trial as a float (the decoder keeps hundredths)
SpeedOf(trial) == Rat(trial.decoded_params.speed, 100)

\* load_current_trajectory; `loaded` is what TrajectoryManager.load_trajectory
\* leaves in current_trajectory: <<>> for None (the look-up raised),
\* <<points>> for a Trajectory
load_current_trajectory(W, loaded) ==
    IF W.e.current_block = <<>> THEN W
    ELSE IF W.e.current_task.has_trajectory
    THEN [W EXCEPT !.e.trajectory = loaded]
    ELSE [W EXCEPT !.e.trajectory = <<>>]

\* create_moving_point once the MovingPoint m1 is constructed
PointCreated(W, m1) ==
    LET W1 == [WithPoint(W, m1) EXCEPT !.e.point_delay = NewPointDelay]
    IN  IF W1.e.err # NoValue \/ W.e.current_task.occlusion_enabled THEN W1
        ELSE WithPoint(W1, disable_occlusion(m1))

\* Experiment.create_moving_point
create_moving_point(W) ==
    IF \/ ~W.e.current_task.has_trajectory
       \/ W.e.trajectory = <<>>
       \/ Len(W.e.trajectory[1]) < 2
    THEN [W EXCEPT !.m = NoPoint]
    ELSE PointCreated(W, NewMovingPoint(W.e.trajectory[1], W.e.assigned_speed,
                                        IF W.e.current_task.occlusion_enabled
                                        THEN W.e.current_task.occlusion_type
                                        ELSE "none",
                                        W.e.current_task.occlusion_range,
                                        OcclusionDelay))

\* the condition label start_new_trial derives from the trial
ConditionType(W) ==
    LET ti == W.e.current_trial.decoded_params.task_index IN
    IF ti = 2 THEN "reproduction"
    ELSE IF ti = 1 THEN "timing_estimation"
    ELSE IF W.e.current_task.occlusion_enabled
    THEN IF W.e.current_task.occlusion_type = "timed" THEN "occlusion_timed"
         ELSE "occlusion_half"
    ELSE "no_occlusion"

\* Experiment.start_new_trial
start_new_trial(W, t) ==
    IF W.e.current_block = <<>> THEN W
    ELSE IF W.e.current_trial = EmptyTrial \/ W.e.progress_info = <<>>
    THEN Raise(W, "KeyError")
    ELSE [W EXCEPT !.e.data_collector =
              dc_start_new_trial(@, ConditionType(W),
                                 W.e.progress_info[1].block_number,
                                 W.e.progress_info[1].display_order,
                                 IF W.m # NoPoint THEN W.e.point_delay.start_delay ELSE 0,
                                 t)]

\* setup_next_trial: the occlusion settings of the point that was created or
\* reset
SetupOcclusion(W) ==
    IF W.e.err # NoValue \/ W.e.trajectory = <<>> \/ W.m = NoPoint THEN W
    ELSE IF W.e.current_task.occlusion_enabled
    THEN WithPoint(W, [set_occlusion_type(W.m, W.e.current_task.occlusion_type)
                          EXCEPT !.occlusion_enabled = TRUE])
    ELSE WithPoint(W, disable_occlusion(W.m))

\* setup_next_trial from "self.current_task = ..." to the point set-up
SetupPoint(W, loaded) ==
    LET task == get_current_task_config(W.e.current_trial.task_type)
        W1 == [W EXCEPT !.e.current_task = task,
                        !.e.assigned_speed = SpeedOf(W.e.current_trial),
                        !.e.photo_sensor_state = "passive"]
        W2 == load_current_trajectory(W1, loaded)
    IN  IF ~task.has_trajectory
        THEN [W1 EXCEPT !.m = NoPoint, !.e.trajectory = <<>>]
        ELSE SetupOcclusion(
                 IF W2.e.trajectory = <<>> THEN W2
                 ELSE IF W2.m = NoPoint THEN create_moving_point(W2)
                 ELSE WithPoint(W2, [reset(W2.m, W2.e.trajectory[1])
                                        EXCEPT !.speed = W2.e.assigned_speed]))

\* setup_next_trial from "self.start_time = ..." on; like every step of a
\* method it is not reached once an exception was raised
SetupStart(W, t) ==
    LET task == W.e.current_task
        W1 == [W EXCEPT !.e.start_time = t,
                        !.e.movement_started = FALSE,
                        !.e.occlusion_started = FALSE,
                        !.e.waiting_for_movement_start = task.has_trajectory,
                        !.e.in_start_delay = FALSE]
        W2 == start_new_trial(W1, t)
    IN  IF W.e.err # NoValue THEN W
        ELSE IF task.has_trajectory THEN W1
        ELSE IF task.reproduction_task /\ W2.e.err = NoValue
        THEN [W2 EXCEPT !.e.reproduction_task =
                  reproduction_activate(@, W2.e.current_trial.duration, t)]
        ELSE W2

\* Experiment.setup_next_trial
setup_next_trial(W, loaded, t) ==
    LET W1 == update_progress_info(W)
    IN  IF W.e.err # NoValue THEN W
        ELSE IF is_experiment_complete_at(W.bi) THEN W1
        ELSE IF W1.e.current_trial = EmptyTrial THEN Raise(W1, "KeyError")
        ELSE SetupStart(SetupPoint(W1, loaded), t)

start_trial_preparation(W, loaded, t) ==
    IF W.e.current_task.has_trajectory
    THEN [W EXCEPT !.e.waiting_for_movement_start = TRUE]
    ELSE IF W.e.current_task.reproduction_task
    THEN setup_next_trial(W, loaded, t)
    ELSE start_new_trial(W, t)

\* Experiment.start_movement_with_delay; `delay` is the start delay the
\* moving point draws
start_movement_with_delay(W, delay, t) ==
    IF W.e.current_task.has_trajectory /\ W.m # NoPoint
    THEN start_new_trial(
             [W EXCEPT !.e.in_start_delay = TRUE,
                       !.e.waiting_for_movement_start = FALSE,
                       !.e.photo_sensor_state = "passive",
                       !.e.point_delay = [start_delay |-> delay,
                                          is_in_start_delay |-> TRUE,
                                          delay_start_time |-> t],
                       !.e.data_collector.current_trial_data.start_delay = delay],
             t)
    ELSE W

\* Experiment.save_current_data: e.saved lists the block number and the
\* number of records of every file written
save_current_data(W) ==
    IF W.e.progress_info = <<>> THEN Raise(W, "KeyError")
    ELSE IF W.e.data_collector.all_trials_data # <<>>
    THEN [W EXCEPT !.e.saved =
              Append(@, <<W.e.progress_info[1].block_number,
                          Len(W.e.data_collector.all_trials_data)>>)]
    ELSE W

handle_block_completion(W) ==
    LET W1 == save_current_data(W)
        W2 == update_progress_info(W1)
    IN  IF W1.e.err # NoValue THEN W1
        ELSE [W2 EXCEPT !.e.data_collector =
                  NewDataCollector(W2.e.progress_info[1].block_number)]

\* Experiment.complete_and_continue
complete_and_continue(W, loaded, t) ==
    LET ct == complete_trial(W.e.data_collector, "True", t)
        W1 == [W EXCEPT !.e.data_collector = ct.dc]
        r == move_to_next_trial_from(W.bi, W.ti)
        W2 == [W1 EXCEPT !.bi = r.block, !.ti = r.trial]
        W3 == save_current_data(W2)
    IN  IF ct.err # NoValue THEN Raise(W1, ct.err)
        ELSE IF r.err # NoValue THEN Raise(W2, r.err)
        ELSE IF r.ret = "True" /\ is_experiment_complete_at(r.block)
        THEN IF W3.e.err # NoValue THEN W3
             ELSE [W3 EXCEPT !.e.running = FALSE]
        ELSE setup_next_trial(IF r.ret = "True"
                              THEN handle_block_completion(W2)
                              ELSE W2,
                              loaded, t)

\* stop_moving_point after the space press is recorded
StopRecorded(W, loaded, t) ==
    LET mst == W.e.data_collector.current_trial_data.movement_start_time
        timed == W.e.movement_started /\ Truthy(mst)
        actual_duration == IF timed THEN t - mst ELSE 0
    IN  IF W.e.current_task.timing_estimation
        THEN [W EXCEPT !.e.data_collector =
                           IF timed
                           THEN record_trajectory_duration(@, actual_duration)
                           ELSE @,
                       !.e.pending_timing_duration = actual_duration,
                       !.e.showing_cross_for_star = TRUE,
                       !.e.cross_for_star_start_time = t,
                       !.e.photo_sensor_state = "passive"]
        ELSE complete_and_continue(
                 [W EXCEPT !.e.data_collector =
                               IF timed
                               THEN record_trajectory_duration(@, actual_duration)
                               ELSE @],
                 loaded, t)

\* Experiment.stop_moving_point
stop_moving_point(W, loaded, t) ==
    LET sp == record_space_press(W.e.data_collector, "True", t)
        W2 == [W EXCEPT !.m = stop_by_user(W.m, t),
                        !.e.space_press_time = t,
                        !.e.data_collector = sp.dc]
    IN  IF W.m = NoPoint THEN W
        ELSE IF sp.err # NoValue THEN Raise(W2, sp.err)
        ELSE StopRecorded(W2, loaded, t)

\* _can_stop_point reading only stopped_by_user, not is_moving
can_stop_point_IgnoreMoving(W) ==
    /\ ~W.e.waiting_for_initial_start
    /\ ~W.e.waiting_for_movement_start
    /\ ~W.e.in_start_delay
    /\ ~W.e.timing_screen.is_active
    /\ ~W.e.reproduction_task.is_active
    /\ W.m # NoPoint
    /\ ~W.m.stopped_by_user
    /\ W.e.current_task.has_trajectory
    /\ ~W.e.current_task.reproduction_task

\* _can_stop_point without the test of the start delay
can_stop_point_DuringDelay(W) ==
    /\ ~W.e.waiting_for_initial_start
    /\ ~W.e.waiting_for_movement_start
    /\ ~W.e.timing_screen.is_active
    /\ ~W.e.reproduction_task.is_active
    /\ W.m # NoPoint
    /\ W.m.is_moving
    /\ ~W.m.stopped_by_user
    /\ W.e.current_task.has_trajectory
    /\ ~W.e.current_task.reproduction_task

\* KeyHandler._can_stop_point
can_stop_point(W) ==
    /\ ~W.e.waiting_for_initial_start
    /\ ~W.e.waiting_for_movement_start
    /\ ~W.e.in_start_delay
    /\ ~W.e.timing_screen.is_active
    /\ ~W.e.reproduction_task.is_active
    /\ W.m # NoPoint
    /\ W.m.is_moving
    /\ ~W.m.stopped_by_user
    /\ W.e.current_task.has_trajectory
    /\ ~W.e.current_task.reproduction_task

\* KeyHandler.handle_space
handle_space(W, loaded, delay, t) ==
    IF W.e.reproduction_task.is_active THEN W
    ELSE IF W.e.waiting_for_initial_start /\ W.e.instruction_active
    THEN start_trial_preparation(
             [W EXCEPT !.e.instruction_active = FALSE,
                       !.e.waiting_for_initial_start = FALSE],
             loaded, t)
    ELSE IF W.e.waiting_for_movement_start
    THEN IF W.e.current_task.reproduction_task
         THEN IF W.e.current_trial = EmptyTrial
              THEN Raise([W EXCEPT !.e.waiting_for_movement_start = FALSE], "KeyError")
              ELSE [W EXCEPT !.e.waiting_for_movement_start = FALSE,
                             !.e.reproduction_task =
                                 reproduction_activate(@, W.e.current_trial.duration, t)]
         ELSE start_movement_with_delay(W, delay, t)
    ELSE IF can_stop_point(W)
    THEN stop_moving_point(W, loaded, t)
    ELSE W

\* Experiment.handle_special_screens for a space key-down: the new world and
\* the value returned
handle_special_screens(W, loaded, delay, t) ==
    IF W.e.showing_cross_for_star
    THEN [W |-> [W EXCEPT !.e.showing_cross_for_star = FALSE,
                          !.e.photo_sensor_state = "active",
                          !.e.timing_screen =
                              timing_activate(@, W.e.pending_timing_duration, t)],
          ret |-> TRUE]
    ELSE IF W.e.timing_screen.is_active
    THEN IF ~W.e.timing_screen.space_pressed
         THEN LET press_time == t - W.e.timing_screen.start_time
                  W1 == [W EXCEPT !.e.timing_screen.space_pressed = TRUE,
                                  !.e.timing_screen.press_time = press_time,
                                  !.e.timing_screen.is_active = FALSE,
                                  !.e.data_collector =
                                      record_timing_estimation(@, press_time)]
              IN  [W |-> complete_and_continue(W1, loaded, t), ret |-> TRUE]
         ELSE [W |-> W, ret |-> FALSE]
    ELSE IF W.e.reproduction_task.is_active
    THEN IF W.e.reproduction_task.state \in
                {"first_cross_waiting", "second_cross_waiting", "response_waiting"}
         THEN LET h == reproduction_handle_event(W.e.reproduction_task, delay, t)
                  W1 == [W EXCEPT !.e.reproduction_task = h.rt]
              IN  IF h.ret
                  THEN [W |-> complete_and_continue(
                                  [W1 EXCEPT !.e.data_collector =
                                                 record_reproduction_results(
                                                     @, h.rt.response_time),
                                             !.e.reproduction_task =
                                                 reproduction_deactivate(h.rt)],
                                  loaded, t),
                        ret |-> TRUE]
                  ELSE [W |-> W1, ret |-> FALSE]
         ELSE [W |-> W, ret |-> FALSE]
    ELSE [W |-> W, ret |-> FALSE]

\* h is what handle_special_screens has returned
KeyHandled(h, loaded, delay, t) ==
    IF h.ret \/ h.W.e.err # NoValue THEN h.W
    ELSE handle_space(h.W, loaded, delay, t)

\* the run loop's handling of one space key-down event
SpaceKeyDown(W, loaded, delay, t) ==
    KeyHandled(handle_special_screens(W, loaded, delay, t), loaded, delay, t)

handle_regular_task(W, actual_duration, loaded, t) ==
    LET sp == record_space_press(W.e.data_collector, "False", t)
        W1 == [W EXCEPT !.e.data_collector = sp.dc]
    IN  IF sp.err # NoValue THEN Raise(W1, sp.err)
        ELSE complete_and_continue(
                 [W1 EXCEPT !.e.data_collector =
                      record_movement_end(
                          record_trajectory_duration(@, actual_duration), t)],
                 loaded, t)

handle_trajectory_completion(W, loaded, t) ==
    LET actual_duration == t - W.e.start_time
        W1 == [W EXCEPT !.e.data_collector = record_movement_end(@, t),
                        !.e.photo_sensor_state =
                            IF @ = "occlusion" THEN "active" ELSE @]
    IN  IF W1.e.current_task.timing_estimation
        THEN [W1 EXCEPT !.e.pending_timing_duration = actual_duration,
                        !.e.showing_cross_for_star = TRUE,
                        !.e.cross_for_star_start_time = t,
                        !.e.photo_sensor_state = "passive"]
        ELSE handle_regular_task(W1, actual_duration, loaded, t)

update_moving_point_logic(W, loaded, t) ==
    IF W.m = NoPoint THEN W
    ELSE LET W1 ==
                 IF /\ ~W.e.occlusion_started
                    /\ W.m.occlusion_enabled
                    /\ ~W.m.is_visible
                 THEN [W EXCEPT !.e.data_collector = record_occlusion_start(@, t),
                                !.e.occlusion_started = TRUE,
                                !.e.photo_sensor_state = "occlusion"]
                 ELSE IF /\ W.e.occlusion_started
                         /\ W.m.is_visible
                         /\ W.e.photo_sensor_state = "occlusion"
                 THEN [W EXCEPT !.e.photo_sensor_state = "active"]
                 ELSE IF W.m.is_moving /\ W.e.photo_sensor_state # "occlusion"
                 THEN [W EXCEPT !.e.photo_sensor_state = "active"]
                 ELSE W
         IN  IF should_switch_to_next(W1.m, t)
             THEN handle_trajectory_completion(W1, loaded, t)
             ELSE W1

\* moving_point.update(dt) as main.py uses it: while the start delay runs
\* the point waits; when the delay is over the movement is started
point_update(W, t) ==
    IF W.e.point_delay.is_in_start_delay
    THEN IF t - W.e.point_delay.delay_start_time >= W.e.point_delay.start_delay
         THEN [WithPoint(W, start_movement(W.m, t))
                   EXCEPT !.e.point_delay.is_in_start_delay = FALSE]
         ELSE W
    ELSE WithPoint(W, update(W.m, t))

\* the part of run() that follows moving_point.update(dt)
PointUpdated(W, loaded, t) ==
    LET W2 == IF W.e.in_start_delay /\ ~W.e.point_delay.is_in_start_delay
              THEN [W EXCEPT !.e.in_start_delay = FALSE,
                             !.e.photo_sensor_state = "active"]
              ELSE W
        W3 == IF ~W2.e.movement_started /\ W2.m.is_moving
              THEN [W2 EXCEPT !.e.movement_started = TRUE,
                              !.e.data_collector = record_movement_start(@, t)]
              ELSE W2
    IN  IF W.e.err # NoValue THEN W
        ELSE IF W.m.is_moving THEN update_moving_point_logic(W3, loaded, t)
        ELSE W3

\* the part of run() that moves the point
UpdatePoint(W, loaded, t) == PointUpdated(point_update(W, t), loaded, t)

\* the part of run() that advances the reproduction task
UpdateReproduction(W, t) ==
    IF W.e.err # NoValue \/ ~W.e.reproduction_task.is_active THEN W
    ELSE LET rt == reproduction_update(W.e.reproduction_task, t)
         IN  [W EXCEPT !.e.reproduction_task = rt,
                       !.e.photo_sensor_state =
                           IF rt.state \in {"first_cross_waiting", "in_start_delay",
                                            "second_cross_waiting"}
                           THEN "passive"
                           ELSE IF rt.state \in {"first_circle_auto", "response_waiting"}
                           THEN "active"
                           ELSE @]

\* Experiment.cleanup: the data of the block are saved when there are any
cleanup(W) ==
    IF W.e.data_collector.all_trials_data # <<>>
    THEN [W EXCEPT !.e.saved =
              Append(@, <<IF W.e.progress_info # <<>>
                          THEN W.e.progress_info[1].block_number
                          ELSE IF ~is_experiment_complete_at(W.bi) THEN W.bi + 1
                          ELSE 1,
                          Len(W.e.data_collector.all_trials_data)>>),
                   !.e.done = TRUE]
    ELSE [W EXCEPT !.e.done = TRUE]

\* the end of a pass: the loop goes on, an exception has left it, or it ends
\* and cleanup runs
EndOfPass(W) ==
    IF W.e.err # NoValue \/ W.e.running THEN W ELSE cleanup(W)

\* one pass of the loop of run() after its events: the updates, and the
\* clean-up when the loop ends
UpdateStates(W, loaded, t) ==
    EndOfPass(UpdateReproduction(
                  IF W.m # NoPoint /\ W.e.current_task.has_trajectory
                  THEN UpdatePoint(W, loaded, t)
                  ELSE W,
                  t))

\* category codes of the trajectory library of the experiment: an occlusion
\* task, a timing-estimation task and a reproduction task
OcclusionCode == <<"C", "1", "S", "1", "D", "1">>
EstimationCode == <<"C", "2", "S", "2", "D", "2">>
ReproductionCode == <<"C", "3", "S", "1", "D", "1">>

\* the trajectory libraries the experiment is run with (category -> number
\* of stored trajectories)
ExpLibraries ==
    { (OcclusionCode :> 1),
      (EstimationCode :> 1),
      (ReproductionCode :> 1),
      (OcclusionCode :> 2),
      (OcclusionCode :> 1) @@ (EstimationCode :> 1),
      (EstimationCode :> 1) @@ (ReproductionCode :> 1),
      (OcclusionCode :> 1) @@ (ReproductionCode :> 1) }

\* what a trajectory look-up may leave in current_trajectory: None, an empty
\* Trajectory, a straight path, a path with a corner
LoadResults ==
    { <<>>,
      << <<>> >>,
      << << <<0, 0>>, <<27, 0>> >> >>,
      << << <<0, 0>>, <<18, 0>>, <<18, 24>> >> >> }

\* Experiment.__init__ at time t: setup_components, then the attributes
\* declared after it
NewExperiment(loaded, t) ==
    LET W0 == [e |-> [waiting_for_initial_start |-> TRUE,
                      waiting_for_movement_start |-> FALSE,
                      in_start_delay |-> FALSE,
                      movement_started |-> FALSE,
                      occlusion_started |-> FALSE,
                      running |-> TRUE,
                      done |-> FALSE,
                      instruction_active |-> TRUE,
                      current_block |-> <<>>,
                      current_trial |-> EmptyTrial,
                      progress_info |-> <<>>,
                      current_task |-> get_current_task_config(0),
                      assigned_speed |-> Zero,
                      trajectory |-> <<>>,
                      start_time |-> t,
                      space_press_time |-> 0,
                      showing_cross_for_star |-> FALSE,
                      cross_for_star_start_time |-> 0,
                      pending_timing_duration |-> 0,
                      photo_sensor_state |-> "passive",
                      timing_screen |-> NewTimingScreen,
                      reproduction_task |-> NewReproductionTask,
                      data_collector |-> NewDataCollector(0),
                      point_delay |-> NewPointDelay,
                      saved |-> <<>>,
                      last_event |-> NoValue,
                      err |-> NoValue],
               m |-> NoPoint, bi |-> 0, ti |-> 0]
        W1 == update_progress_info(W0)
        task == get_current_task_config(W1.e.current_trial.task_type)
        W2 == [W1 EXCEPT !.e.current_task = task,
                         !.e.data_collector =
                             NewDataCollector(W1.e.progress_info[1].block_number)]
        W3 == IF task.has_trajectory
              THEN create_moving_point(
                       [load_current_trajectory(W2, loaded)
                            EXCEPT !.e.assigned_speed = SpeedOf(W1.e.current_trial)])
              ELSE W2
        W4 == start_new_trial(W3, t)
    IN  [W4 EXCEPT !.e.current_block = <<>>,
                   !.e.current_trial = EmptyTrial,
                   !.e.progress_info = <<>>]

\* the world of the current state
World ==
    [e |-> exp, m |-> mp, bi |-> current_block_index, ti |-> current_trial_index]

\* the world a step leaves
Becomes(W) ==
    /\ exp' = W.e
    /\ mp' = W.m
    /\ current_block_index' = W.bi
    /\ current_trial_index' = W.ti
    /\ UNCHANGED <<trajectories_data, blocks, block_sequences,
                   category_counters, bm_call, decVars, draw, apiVars>>

ExpInit ==
    /\ trajectories_data \in ExpLibraries
    /\ blocks = <<[trajectories_category |-> Sequential]>>
    /\ block_sequences = BuildBlockSequences(trajectories_data, blocks)
    /\ current_block_index = 0
    /\ current_trial_index = 0
    /\ category_counters = [c \in DOMAIN trajectories_data |-> 0]
    /\ bm_call = [ret |-> NoValue, err |-> NoValue]
    /\ category = <<>>
    /\ decoded = <<>>
    /\ draw = Unused
    /\ \E W \in {NewExperiment(loaded, 0) : loaded \in LoadResults} :
           /\ exp = W.e
           /\ mp = W.m
    /\ traj = Unused
    /\ collector = Unused
    /\ reproduction_task = Unused
    /\ timing_screen = Unused
    /\ events = <<>>
    /\ now = 0

\* the loop runs: no exception has left run() and the clean-up is not done
Running == exp.err = NoValue /\ ~exp.done

\* a space key-down event is taken from the queue; last_event is the event
\* the current pass of the loop has handled
SpaceKey ==
    /\ Running
    /\ \E loaded \in LoadResults, delay \in StartDelays :
           Becomes([SpaceKeyDown(World, loaded, delay, now)
                        EXCEPT !.e.last_event = "K_SPACE"])
    /\ UNCHANGED now

\* KeyHandler.handle_escape
EscapeKey ==
    /\ Running
    /\ exp.running
    /\ Becomes([World EXCEPT !.e.running = FALSE, !.e.last_event = "K_ESCAPE"])
    /\ UNCHANGED now

\* the updates that end a pass of the loop
LoopUpdate ==
    /\ Running
    /\ \E loaded \in LoadResults :
           Becomes([UpdateStates(World, loaded, now) EXCEPT !.e.last_event = NoValue])
    /\ UNCHANGED now

ExpTick ==
    /\ Running
    /\ now < ExpMaxTime
    /\ now' = now + ExpClockStep
    /\ UNCHANGED <<bmVars, decVars, draw, mp, exp, apiVars>>

ExpNext ==
    \/ SpaceKey
    \/ EscapeKey
    \/ LoopUpdate
    \/ ExpTick

SpecExp == ExpInit /\ [][ExpNext]_vars

----------------------------------------------------------------------------
(* Claims about the BlockManager, checked under SpecBM *)

\* C1: after construction and after any sequence of move_to_next_trial
\* calls the cursor (current_block_index, current_trial_index) either
\* designates an existing trial (get_current_trial returns a real trial) or
\* is_experiment_complete() is true.
C1_CursorValidOrComplete ==
    get_current_trial # EmptyTrial \/ is_experiment_complete

\* C2: move_to_next_trial called when is_experiment_complete() is already
\* true is a no-op: no error, no read outside block_sequences, and the
\* cursor stays where it was.
C2_AdvancePastEndIsNoOp ==
    [][(is_experiment_complete /\ move_to_next_trial)
        => /\ bm_call'.err = NoValue
           /\ current_block_index' = current_block_index
           /\ current_trial_index' = current_trial_index]_vars

\* the cursor stands on the last trial of its block, or the block has no
\* trial after the cursor at all
OnLastTrialOfBlock ==
    current_trial_index >= Len(block_sequences[current_block_index + 1]) - 1

\* C3: while the experiment is not complete, move_to_next_trial returns True
\* exactly when it moves past the last trial of the current block; then the
\* trial cursor becomes 0 and the block cursor grows by one; otherwise it
\* returns False, the trial cursor grows by one and the block cursor stays.
\* The experiment becomes complete exactly on the call that moves past the
\* last trial of the last block.
C3_AdvanceContract ==
    [][(~is_experiment_complete /\ move_to_next_trial)
        => /\ bm_call'.err = NoValue
           /\ (bm_call'.ret = "True") <=> OnLastTrialOfBlock
           /\ OnLastTrialOfBlock
                => /\ current_trial_index' = 0
                   /\ current_block_index' = current_block_index + 1
           /\ ~OnLastTrialOfBlock
                => /\ bm_call'.ret = "False"
                   /\ current_trial_index' = current_trial_index + 1
                   /\ current_block_index' = current_block_index
           /\ is_experiment_complete'
                <=> (OnLastTrialOfBlock /\ current_block_index = Len(blocks) - 1)]_vars

\* a block of two or more trials was just completed and another block follows
C3_Witness ==
    /\ bm_call.ret = "True"
    /\ current_block_index = 1
    /\ Len(blocks) = 2
    /\ Len(block_sequences[1]) >= 2

\* the library {"A": [p1], "B": [p1, p2]}
ExampleLibrary == (<<"A">> :> 1) @@ (<<"B">> :> 2)

\* how often the pair (cat, idx) occurs in a trial sequence
Occurrences(seq, cat, idx) ==
    Cardinality({k \in 1..Len(seq) :
                    /\ seq[k].actual_trajectory_category = cat
                    /\ seq[k].trajectory_index = idx})

\* C4: the trial sequence of a "sequential" block holds every stored
\* (category, trajectory index) pair exactly once and nothing else, in
\* sorted category order and ascending index within a category, and the
\* trial at position k has display_order = trial_in_block = k; the library
\* {A: [p1], B: [p1, p2]} gives three trials A, B, B.
C4_SequentialGeneration ==
    \A b \in 1..Len(blocks) :
        blocks[b].trajectories_category = Sequential =>
            LET seq == block_sequences[b] IN
            /\ \A c \in DOMAIN trajectories_data :
                   \A i \in 0..(trajectories_data[c] - 1) :
                       Occurrences(seq, c, i) = 1
            /\ \A k \in 1..Len(seq) :
                   /\ seq[k].actual_trajectory_category \in DOMAIN trajectories_data
                   /\ seq[k].trajectory_index \in
                          0..(trajectories_data[seq[k].actual_trajectory_category] - 1)
                   /\ seq[k].display_order = k
                   /\ seq[k].trial_in_block = k
            /\ \A j, k \in 1..Len(seq) :
                   j < k =>
                       \/ StrLess(seq[j].actual_trajectory_category,
                                  seq[k].actual_trajectory_category)
                       \/ /\ seq[j].actual_trajectory_category
                               = seq[k].actual_trajectory_category
                          /\ seq[j].trajectory_index < seq[k].trajectory_index
            /\ trajectories_data = ExampleLibrary
                   => [k \in 1..Len(seq) |-> seq[k].actual_trajectory_category]
                          = << <<"A">>, <<"B">>, <<"B">> >>

\* a single sequential block over the example library, its last trial current
C4_Witness ==
    /\ trajectories_data = ExampleLibrary
    /\ Len(blocks) = 1
    /\ blocks[1].trajectories_category = Sequential
    /\ Len(block_sequences[1]) = 3
    /\ current_trial_index = 2
    /\ get_current_trial.display_order = 3

\* C5: every trial generated for a block whose trajectories_category names
\* a specific category (not "sequential") has that category as its
\* actual_trajectory_category.
C5_BlockTrialsShareCategory ==
    \A b \in 1..Len(blocks) :
        blocks[b].trajectories_category # Sequential =>
            \A k \in 1..Len(block_sequences[b]) :
                block_sequences[b][k].actual_trajectory_category
                    = blocks[b].trajectories_category

----------------------------------------------------------------------------
(* Claim about decode_category, checked under SpecDecode *)

\* C6: decode_category returns a result for every string. For a code of six
\* characters, character 2 in {1,2,3} selects task 0/1/2, character 4 in
\* {1,2} the slow/fast speed, character 6 in {1,2,3} the short/middle/long
\* duration, any other character the field's default (task 0, slow speed,
\* shortest duration); a string of any other length gives the full default.
C6_DecodeCategory ==
    decoded # <<>> =>
        IF Len(category) = 6
        THEN /\ decoded[1].task_index =
                    (CASE category[2] = "1" -> 0
                       [] category[2] = "2" -> 1
                       [] category[2] = "3" -> 2
                       [] OTHER -> 0)
             /\ decoded[1].speed =
                    (CASE category[4] = "1" -> available_speeds[1]
                       [] category[4] = "2" -> available_speeds[2]
                       [] OTHER -> available_speeds[1])
             /\ decoded[1].duration =
                    (CASE category[6] = "1" -> available_durations[1]
                       [] category[6] = "2" -> available_durations[2]
                       [] category[6] = "3" -> available_durations[3]
                       [] OTHER -> available_durations[1])
        ELSE /\ decoded[1].task_index = 0
             /\ decoded[1].speed = available_speeds[1]
             /\ decoded[1].duration = available_durations[1]

\* the code "C3S2D2" was decoded: reproduction task, fast speed, 1600 ms
C6_Witness ==
    /\ category = <<"C", "3", "S", "2", "D", "2">>
    /\ decoded # <<>>
    /\ decoded[1].task_index = 2
    /\ decoded[1].speed = 1800
    /\ decoded[1].duration = 1600

----------------------------------------------------------------------------
(* Claim about the randomized draw, checked under SpecDraw *)

\* C7: the indices drawn for one category since its last reset are pairwise
\* different and lie in the category's pool: no index is drawn twice until
\* the pool is exhausted (used indices are tracked per category).
C7_NoRedrawBeforeExhaustion ==
    \A c \in DOMAIN trajectories_data :
        LET d == draw.drawn[c] IN
        /\ \A j, k \in 1..Len(d) : j # k => d[j] # d[k]
        /\ \A k \in 1..Len(d) : d[k] \in 0..(trajectories_data[c] - 1)
        /\ draw.used[c] = {d[k] : k \in 1..Len(d)}

\* two indices were drawn for category B without a reset in between
C7_Witness ==
    /\ <<"B">> \in DOMAIN trajectories_data
    /\ Len(draw.drawn[<<"B">>]) = 2

----------------------------------------------------------------------------
(* Claims about the MovingPoint, checked under SpecMP *)

\* C8: in every reachable MovingPoint state, with occlusion enabled
\* is_visible is the exact negation of occlusion_active, and with occlusion
\* disabled is_visible is true.
C8_VisibilityComplementsOcclusion ==
    /\ mp.occlusion_enabled => (mp.is_visible = ~mp.occlusion_active)
    /\ ~mp.occlusion_enabled => mp.is_visible

\* C9: stop_by_user on a moving point sets is_finished and stopped_by_user,
\* clears is_moving and leaves the position where it was; is_visible becomes
\* the negation of the occlusion_active of the moment of the call; and a
\* point stopped while hidden stays hidden, and stays where it is, under every
\* later call until the next trial is set up (reset, disable_occlusion).
C9_StopByUser ==
    [][ /\ (mp.is_moving /\ ~mp.is_finished /\ MPStopByUser) =>
              /\ mp'.is_finished
              /\ mp'.stopped_by_user
              /\ ~mp'.is_moving
              /\ mp'.finished_timer = now
              /\ mp'.current_position = mp.current_position
              /\ mp'.is_visible = ~mp.occlusion_active
        /\ (mp.stopped_by_user /\ ~MPReset /\ ~MPDisableOcclusion) =>
              /\ mp'.stopped_by_user
              /\ mp'.is_finished
              /\ ~mp'.is_moving
              /\ mp'.current_position = mp.current_position
              /\ mp'.is_visible = mp.is_visible ]_vars

\* a point stopped by the user inside the occlusion zone, still hidden at a
\* later time
C9_Witness ==
    /\ mp.stopped_by_user
    /\ mp.is_finished
    /\ ~mp.is_moving
    /\ mp.occlusion_active
    /\ ~mp.is_visible
    /\ now > mp.finished_timer

----------------------------------------------------------------------------
(* Claims about the stop path of the experiment, checked under SpecExp *)

\* a space key-down of this state is a stop request: handle_special_screens
\* does not consume it and handle_space takes neither the branch of the
\* initial instruction nor the branch that starts the movement, so the key
\* is decided by _can_stop_point
StopRequest ==
    /\ ~exp.showing_cross_for_star
    /\ ~exp.timing_screen.is_active
    /\ ~exp.reproduction_task.is_active
    /\ ~(exp.waiting_for_initial_start /\ exp.instruction_active)
    /\ ~exp.waiting_for_movement_start

C11_ResetThenUpdate ==
    [][ (MPReset /\ mp'.err = NoValue) => ~update(mp', now).is_finished ]_vars

\* n calls of update in a row
RECURSIVE UpdatedTimes(_, _, _)
UpdatedTimes(m, n, t) ==
    IF n = 0 THEN m ELSE UpdatedTimes(update(m, t), n - 1, t)

\* the point is as __init__ or reset left it, on a path of two or more points
\* whose length is a multiple of the (whole) speed
FreshOnDivisiblePath ==
    /\ mp.err = NoValue
    /\ mp = reset(mp, mp.trajectory)
    /\ Len(mp.trajectory) >= 2
    /\ mp.speed[2] = 1
    /\ total_length(mp.trajectory) % mp.speed[1] = 0

\* C12: a point of speed s on a polyline of total length L, L a multiple of
\* s, sets is_finished on exactly the (L/s)-th update, however the path is
\* divided into segments: L/s updates finish it, one update fewer does not
C12_FinishesOnLOverSthUpdate ==
    FreshOnDivisiblePath =>
        LET frames == total_length(mp.trajectory) \div mp.speed[1]
        IN  /\ UpdatedTimes(mp, frames, now).is_finished
            /\ ~UpdatedTimes(mp, frames - 1, now).is_finished

\* arc length of the path before segment seg (0-based)
LengthBefore(points, seg) ==
    LengthFrom(points, 1) - LengthFrom(points, seg + 1)

\* arc-length position of the point: the length of the segments behind it
\* plus its progress on the current one (the whole path when it has passed
\* the last segment)
ArcPosition(m) ==
    IF m.current_segment >= Len(m.trajectory) - 1
    THEN <<total_length(m.trajectory), 1>>
    ELSE RatAdd(<<LengthBefore(m.trajectory, m.current_segment), 1>>,
                RatMul(m.progress,
                       <<segment_length(m.trajectory[m.current_segment + 1],
                                        m.trajectory[m.current_segment + 2]), 1>>))

\* the fraction f of the length of the point's path
PathFraction(m, f) == RatMul(f, <<total_length(m.trajectory), 1>>)

\* range-mode occlusion over [0.5, 1.0] as _setup_automatic_occlusion set it
\* up, on a point that is moving
MovingInRangeMode ==
    /\ mp.err = NoValue
    /\ mp.occlusion_type # "timed"
    /\ mp.occlusion_range = <<Half, One>>
    /\ Len(mp.trajectory) >= 2
    /\ mp = setup_automatic_occlusion(mp)
    /\ mp.is_moving
    /\ ~mp.is_finished

\* C13: in range-mode occlusion with range [0.5, 1.0] an update leaves the
\* point visible while its arc-length position is at most 0.49 L, and leaves
\* it hidden once its position had reached 0.51 L or more by the update
\* before, for as long as it is still moving
C13_RangeOcclusion ==
    [][ (MovingInRangeMode /\ MPUpdate) =>
            /\ RatGeq(PathFraction(mp', <<49, 100>>), ArcPosition(mp'))
                   => mp'.is_visible
            /\ (RatGeq(ArcPosition(mp), PathFraction(mp, <<51, 100>>)) /\ mp'.is_moving)
                   => ~mp'.is_visible ]_vars

\* timed occlusion on a point that start_movement has started and that is
\* moving
MovingInTimedMode ==
    /\ mp.occlusion_enabled
    /\ mp.occlusion_type = "timed"
    /\ mp.movement_start_time # NoTime
    /\ mp.is_moving
    /\ ~mp.is_finished

\* C14: in timed occlusion an update made less than occlusion_delay ms after
\* start_movement leaves the point visible, an update made at or after the
\* delay leaves it hidden wherever it is, and the update that completes the
\* trajectory leaves it visible
C14_TimedOcclusion ==
    [][ (MovingInTimedMode /\ MPUpdate) =>
            IF mp'.is_finished THEN mp'.is_visible
            ELSE mp'.is_visible <=> (now - mp.movement_start_time < mp.occlusion_delay) ]_vars

\* an update made occlusion_delay ms or more after start_movement has hidden
\* a point that is still in the first half of its path
C14_Witness ==
    /\ MovingInTimedMode
    /\ mp.err = NoValue
    /\ now - mp.movement_start_time >= mp.occlusion_delay
    /\ mp.occlusion_started
    /\ ~mp.is_visible
    /\ RatLess(Zero, ArcPosition(mp))
    /\ RatLess(ArcPosition(mp), PathFraction(mp, Half))

\* C15: should_switch_to_next is false while is_finished is false and while
\* less than 900 ms have passed since the point finished, and true at every
\* query made 900 ms or more after it finished, by a user stop or on its own:
\* finished_timer is the time of the step that set is_finished and does not
\* change while is_finished stays set, and the query compares the time since
\* finished_timer with 900 ms
C15_SwitchDelay ==
    [][ /\ (~mp.is_finished /\ mp'.is_finished) => mp'.finished_timer = now
        /\ (mp.is_finished /\ mp'.is_finished) => mp'.finished_timer = mp.finished_timer
        /\ should_switch_to_next(mp', now')
               <=> (mp'.is_finished /\ now' - mp'.finished_timer >= FinishedDelay) ]_vars

\* a point that completed its path on its own 900 ms or more ago: the query
\* answers true
C15_Witness ==
    /\ mp.err = NoValue
    /\ mp.is_finished
    /\ ~mp.stopped_by_user
    /\ Len(mp.trajectory) >= 2
    /\ now - mp.finished_timer >= FinishedDelay
    /\ should_switch_to_next(mp, now)

----------------------------------------------------------------------------
(* The Trajectory object of trajectory.py: its points, the total length    *)
(* computed by __init__, and the argument and outcome of the last          *)
(* calculate_duration call.                                                *)

\* a Trajectory has at most MaxPoints points
MaxPoints == 3

\* the points paths are made of; the distances between them are 3, 4 and 5
PointPool == { <<0, 0>>, <<3, 0>>, <<3, 4>> }

PathPool == UNION { [1..n -> PointPool] : n \in 0..MaxPoints }

\* speeds passed to calculate_duration: negative, zero and positive
DurationSpeeds == { <<-1, 1>>, <<0, 1>>, <<1, 2>>, <<1, 1>>, <<3, 1>> }

\* Trajectory.__init__
NewTrajectory(points) ==
    [points |-> points,
     total_length |-> total_length(points),
     speed |-> <<>>,
     ret |-> <<>>,
     err |-> NoValue]

\* calculate_duration without the speed <= 0 test: a speed of 0 divides by
\* zero and a negative speed gives a negative duration
calculate_duration_SpeedUnchecked(t, speed) ==
    IF Len(t.points) < 2 THEN [ret |-> <<Zero>>, err |-> NoValue]
    ELSE IF speed[1] = 0 THEN [ret |-> <<>>, err |-> "ZeroDivisionError"]
    ELSE [ret |-> << RatMul(RatMul(RatMul(<<t.total_length, 1>>,
                                          IF speed[1] < 0
                                          THEN Rat(-speed[2], -speed[1])
                                          ELSE Rat(speed[2], speed[1])),
                                   <<1, 60>>),
                            <<1000, 1>>) >>,
          err |-> NoValue]

\* Trajectory.calculate_duration: the value returned, in ms
calculate_duration(t, speed) ==
    IF ~RatLess(Zero, speed) \/ Len(t.points) < 2
    THEN [ret |-> <<Zero>>, err |-> NoValue]
    ELSE [ret |-> << RatMul(RatMul(RatMul(<<t.total_length, 1>>,
                                          Rat(speed[2], speed[1])),
                                   <<1, 60>>),
                            <<1000, 1>>) >>,
          err |-> NoValue]

TrajInit ==
    /\ trajectories_data = <<>>
    /\ blocks = <<>>
    /\ block_sequences = <<>>
    /\ current_block_index = 0
    /\ current_trial_index = 0
    /\ category_counters = <<>>
    /\ bm_call = [ret |-> NoValue, err |-> NoValue]
    /\ category = <<>>
    /\ decoded = <<>>
    /\ draw = Unused
    /\ mp = Unused
    /\ exp = Unused
    /\ traj \in { NewTrajectory(points) : points \in PathPool }
    /\ collector = Unused
    /\ reproduction_task = Unused
    /\ timing_screen = Unused
    /\ events = <<>>
    /\ now = 0

notTraj == <<bmVars, decVars, draw, mp, exp, collector, reproduction_task, timing_screen, events, now>>

CalculateDuration ==
    /\ \E speed \in DurationSpeeds :
           LET r == calculate_duration(traj, speed)
           IN  traj' = [traj EXCEPT !.speed = <<speed>>, !.ret = r.ret, !.err = r.err]
    /\ UNCHANGED notTraj

TrajNext == CalculateDuration

SpecTraj == TrajInit /\ [][TrajNext]_vars

\* calculate_duration has been called with a speed that is positive
CalledWithPositiveSpeed == traj.speed # <<>> /\ RatLess(Zero, traj.speed[1])

\* all points of the trajectory are the same point
AllPointsCoincide ==
    \A i, j \in 1..Len(traj.points) : traj.points[i] = traj.points[j]

\* C16 (as stated): calculate_duration returns 0 for every speed <= 0, and
\* for a speed > 0 every trajectory of two or more points has a strictly
\* positive duration
C16_PositiveForTwoPoints ==
    traj.speed # <<>> =>
        /\ ~RatLess(Zero, traj.speed[1]) => traj.ret = <<Zero>>
        /\ (CalledWithPositiveSpeed /\ Len(traj.points) >= 2)
               => (traj.ret # <<>> /\ RatLess(Zero, traj.ret[1]))

\* C16 (amended): calculate_duration returns 0 for every speed <= 0, and for
\* a speed > 0 it returns 0 exactly for the trajectories of total length 0,
\* those of fewer than two points and those whose points all coincide, and a
\* strictly positive duration for every other trajectory
C16_PositiveForPositiveLength ==
    traj.speed # <<>> =>
        /\ traj.ret # <<>>
        /\ ~RatLess(Zero, traj.speed[1]) => traj.ret = <<Zero>>
        /\ CalledWithPositiveSpeed =>
               IF Len(traj.points) < 2 \/ AllPointsCoincide
               THEN traj.ret = <<Zero>>
               ELSE RatLess(Zero, traj.ret[1])

\* a trajectory of two or more coinciding points whose duration at a
\* positive speed is 0
C16_Witness ==
    /\ CalledWithPositiveSpeed
    /\ Len(traj.points) >= 2
    /\ AllPointsCoincide
    /\ traj.ret = <<Zero>>

----------------------------------------------------------------------------
(* The DataCollector object of data_collector.py under calls of its        *)
(* methods in any order: the object and the exception the last call        *)
(* raised.                                                                 *)

\* start_new_trial is called at most MaxTrials times per block and
\* all_trials_data holds at most MaxRecords records
MaxTrials == 2
MaxRecords == 2

\* the clock of the collector advances in steps of DCClockStep ms up to
\* DCMaxTime
DCClockStep == 500
DCMaxTime == 500

DCInit ==
    /\ trajectories_data = <<>>
    /\ blocks = <<>>
    /\ block_sequences = <<>>
    /\ current_block_index = 0
    /\ current_trial_index = 0
    /\ category_counters = <<>>
    /\ bm_call = [ret |-> NoValue, err |-> NoValue]
    /\ category = <<>>
    /\ decoded = <<>>
    /\ draw = Unused
    /\ mp = Unused
    /\ exp = Unused
    /\ traj = Unused
    /\ collector = [dc |-> NewDataCollector(1), err |-> NoValue]
    /\ reproduction_task = Unused
    /\ timing_screen = Unused
    /\ events = <<>>
    /\ now = 0

notDC == <<bmVars, decVars, draw, mp, exp, traj, reproduction_task, timing_screen, events>>

DCStartNewTrial ==
    /\ collector.dc.trial_number < MaxTrials
    /\ collector' = [dc |-> dc_start_new_trial(collector.dc, "no_occlusion",
                                                collector.dc.block_number,
                                                collector.dc.trial_number, 0, now),
                     err |-> NoValue]
    /\ UNCHANGED <<notDC, now>>

DCRecordMovementStart ==
    /\ collector' = [dc |-> record_movement_start(collector.dc, now), err |-> NoValue]
    /\ UNCHANGED <<notDC, now>>

DCRecordMovementEnd ==
    /\ collector' = [dc |-> record_movement_end(collector.dc, now), err |-> NoValue]
    /\ UNCHANGED <<notDC, now>>

DCCompleteTrial ==
    /\ Len(collector.dc.all_trials_data) < MaxRecords
    /\ \E completed_normally \in {"True", "False"} :
           collector' = complete_trial(collector.dc, completed_normally, now)
    /\ UNCHANGED <<notDC, now>>

DCResetBlock ==
    /\ collector' = [dc |-> reset_block(collector.dc, collector.dc.block_number),
                     err |-> NoValue]
    /\ UNCHANGED <<notDC, now>>

DCTick ==
    /\ now < DCMaxTime
    /\ now' = now + DCClockStep
    /\ UNCHANGED <<notDC, collector>>

DCNext ==
    \/ DCStartNewTrial
    \/ DCRecordMovementStart
    \/ DCRecordMovementEnd
    \/ DCCompleteTrial
    \/ DCResetBlock
    \/ DCTick

SpecDC == DCInit /\ [][DCNext]_vars

\* the record of the current trial, and the records of the completed ones
CurrentRecord == collector.dc.current_trial_data
History == collector.dc.all_trials_data

\* a time stamp of the record has been assigned: the key is there and its
\* value is not None
Assigned(x) == x # Missing /\ x # NoTime

\* C17: record_movement_end is idempotent within a trial: once it has been
\* called for the current trial, a later call does not change the stored
\* movement_end_time
C17_MovementEndIdempotent ==
    [][ (DCRecordMovementEnd /\ CurrentRecord.trial_number # Missing
                             /\ Assigned(CurrentRecord.movement_end_time))
            => collector'.dc.current_trial_data.movement_end_time
                   = CurrentRecord.movement_end_time ]_vars

\* no trial is open: start_new_trial has not been called since __init__ or
\* reset_block, or the current trial's record has been appended already
NoOpenTrial ==
    \/ CurrentRecord.trial_number = Missing
    \/ /\ History # <<>>
       /\ History[Len(History)].trial_number = CurrentRecord.trial_number

\* C18: complete_trial called again without a start_new_trial in between, or
\* before any start_new_trial, appends nothing and raises no error
C18_SecondCompleteIsNoOp ==
    [][ (DCCompleteTrial /\ NoOpenTrial)
            => /\ collector'.dc.all_trials_data = History
               /\ collector'.err = NoValue ]_vars

\* the step is a complete_trial(completed_normally=True) that appends a
\* record
AppendsCompletedNormally ==
    /\ DCCompleteTrial
    /\ Len(collector'.dc.all_trials_data) = Len(History) + 1
    /\ collector'.dc.all_trials_data[Len(History) + 1].completed_normally = "True"

\* C19 (as stated): every appended record with completed_normally = true has
\* a movement_end_time that is not null, and movement_end_time is assigned
\* before completed_normally is set true: the record complete_trial sets the
\* flag on holds a movement_end_time already
C19_EndTimeBeforeFlag ==
    [][ AppendsCompletedNormally =>
            /\ Assigned(collector'.dc.all_trials_data[Len(History) + 1].movement_end_time)
            /\ Assigned(CurrentRecord.movement_end_time) ]_vars

\* C19 (amended): every record of the history with completed_normally = true
\* has a movement_end_time that is not null; complete_trial sets the flag
\* first and then, before it appends the record, keeps a movement_end_time
\* that is set and gives one that is unset (None or 0) the current time
C19_EndTimeSetOnAppend ==
    [][ /\ \A i \in 1..Len(collector'.dc.all_trials_data) :
               collector'.dc.all_trials_data[i].completed_normally = "True"
                   => Assigned(collector'.dc.all_trials_data[i].movement_end_time)
        /\ AppendsCompletedNormally =>
               /\ collector'.dc.all_trials_data[Len(History) + 1]
                      = collector'.dc.current_trial_data
               /\ collector'.dc.current_trial_data.movement_end_time
                      = IF Truthy(CurrentRecord.movement_end_time)
                        THEN CurrentRecord.movement_end_time
                        ELSE now ]_vars

\* the last record of the history is that of a trial whose movement started
\* some time before it was completed normally without a record_movement_end:
\* its movement_end_time is the time of the complete_trial call
C19_Witness ==
    /\ History # <<>>
    /\ collector.err = NoValue
    /\ History[Len(History)].completed_normally = "True"
    /\ History[Len(History)].trial_number # Missing
    /\ History[Len(History)].movement_start_time = 0
    /\ History[Len(History)].movement_end_time = now
    /\ now > 0
    /\ CurrentRecord = History[Len(History)]

\* C20: the trial history is append-only and immutable: no start_new_trial,
\* record_* or complete_trial call changes a field of a record that was
\* appended, or removes or reorders the records; only reset_block clears the
\* history
C20_HistoryAppendOnly ==
    [][ ~DCResetBlock =>
            /\ Len(collector'.dc.all_trials_data) >= Len(History)
            /\ SubSeq(collector'.dc.all_trials_data, 1, Len(History)) = History ]_vars

\* two trials are in the history, and after the second was appended a
\* record_* call has changed the current record and not the appended one
C20_Witness ==
    /\ Len(History) = 2
    /\ History[1].trial_number = 1
    /\ History[2].trial_number = 2
    /\ CurrentRecord.trial_number = 2
    /\ CurrentRecord # History[2]
    /\ History[1].start_time < History[2].start_time

\* ------------------------------------------------------------------------
\* The experiment loop: user stops, the sub-machines of the special screens,
\* the order of events and updates

\* the record of the trial the participant has just stopped: the open record
\* while the cross of the estimation is shown, the record appended last
\* otherwise
StoppedRecord ==
    IF exp.showing_cross_for_star \/ exp.data_collector.all_trials_data = <<>>
    THEN exp.data_collector.current_trial_data
    ELSE exp.data_collector.all_trials_data[Len(exp.data_collector.all_trials_data)]

\* the record of the open trial holds the time the movement started
MovementStartRecorded ==
    exp.data_collector.current_trial_data.movement_start_time \notin {Missing, NoTime}

RTClockStep == 200
RTMaxTime == 2200

\* the target durations the task is activated with, in ms
TargetDurations == {0, 400, 1000}

\* ReproductionTask.get_results; the ratio is an exact fraction
reproduction_get_results(rt) ==
    [target_duration |-> rt.target_duration,
     reproduced_duration |-> rt.response_time,
     reproduction_error |-> rt.response_time - rt.target_duration,
     reproduction_error_abs |-> Abs(rt.response_time - rt.target_duration),
     reproduction_ratio |-> IF rt.target_duration > 0
                            THEN Rat(rt.response_time, rt.target_duration)
                            ELSE Zero,
     start_delay |-> rt.start_delay]

RTInit ==
    /\ trajectories_data = <<>>
    /\ blocks = <<>>
    /\ block_sequences = <<>>
    /\ current_block_index = 0
    /\ current_trial_index = 0
    /\ category_counters = <<>>
    /\ bm_call = [ret |-> NoValue, err |-> NoValue]
    /\ category = <<>>
    /\ decoded = <<>>
    /\ draw = Unused
    /\ mp = Unused
    /\ exp = Unused
    /\ traj = Unused
    /\ collector = Unused
    /\ reproduction_task = [rt |-> NewReproductionTask, ret |-> NoValue]
    /\ timing_screen = Unused
    /\ events = <<>>
    /\ now = 0

\* what a step of the ReproductionTask leaves alone
notRT ==
    UNCHANGED <<bmVars, decVars, draw, mp, exp, traj, collector, timing_screen, events>>

RTActivate ==
    /\ \E target_duration \in TargetDurations :
           reproduction_task' =
               [rt |-> reproduction_activate(reproduction_task.rt, target_duration, now),
                ret |-> NoValue]
    /\ UNCHANGED now
    /\ notRT

\* handle_event with a space key-down
RTSpace ==
    /\ \E delay \in StartDelays :
           LET h == reproduction_handle_event(reproduction_task.rt, delay, now)
           IN  reproduction_task' =
                   [rt |-> h.rt, ret |-> IF h.ret THEN "True" ELSE "False"]
    /\ UNCHANGED now
    /\ notRT

RTUpdate ==
    /\ reproduction_task' =
           [rt |-> reproduction_update(reproduction_task.rt, now), ret |-> NoValue]
    /\ UNCHANGED now
    /\ notRT

RTDeactivate ==
    /\ reproduction_task' =
           [rt |-> reproduction_deactivate(reproduction_task.rt), ret |-> NoValue]
    /\ UNCHANGED now
    /\ notRT

RTTick ==
    /\ now < RTMaxTime
    /\ now' = now + RTClockStep
    /\ UNCHANGED reproduction_task
    /\ notRT

RTNext ==
    \/ RTActivate
    \/ RTSpace
    \/ RTUpdate
    \/ RTDeactivate
    \/ RTTick

SpecRT == RTInit /\ [][RTNext]_vars

\* the order of the states of the task
RTOrder ==
    { <<"first_cross_waiting", "in_start_delay">>,
      <<"in_start_delay", "first_circle_auto">>,
      <<"first_circle_auto", "second_cross_waiting">>,
      <<"second_cross_waiting", "response_waiting">> }

\* C22: after activate, under any interleaving of space key events and
\* updates, the state of the ReproductionTask changes only to the next state
\* of first_cross_waiting, in_start_delay, first_circle_auto,
\* second_cross_waiting, response_waiting; the task becomes complete
\* (is_complete(): space_pressed) only in response_waiting, and once complete
\* no key or update changes it; start_delay is assigned only on leaving
\* first_cross_waiting, a value of {200, 400}; first_circle_auto is entered at
\* state_start_time, which stays while the circle is shown, and is left only
\* when at least target_duration ms have passed since.
C22_StateOrder ==
    [][ (RTSpace \/ RTUpdate) =>
          /\ reproduction_task.rt.state # reproduction_task'.rt.state
               => <<reproduction_task.rt.state, reproduction_task'.rt.state>> \in RTOrder
          /\ reproduction_task.rt.space_pressed # reproduction_task'.rt.space_pressed
               => /\ reproduction_task.rt.state = "response_waiting"
                  /\ reproduction_task'.rt.state = "response_waiting"
                  /\ reproduction_task'.rt.space_pressed
          /\ reproduction_task.rt.space_pressed
               => reproduction_task'.rt = reproduction_task.rt
          /\ reproduction_task.rt.start_delay # reproduction_task'.rt.start_delay
               => reproduction_task.rt.state = "first_cross_waiting"
          /\ (reproduction_task.rt.state = "first_cross_waiting"
                /\ reproduction_task'.rt.state = "in_start_delay")
               => reproduction_task'.rt.start_delay \in {200, 400}
          /\ (reproduction_task.rt.state = "in_start_delay"
                /\ reproduction_task'.rt.state = "first_circle_auto")
               => reproduction_task'.rt.state_start_time = now
          /\ reproduction_task.rt.state = "first_circle_auto"
               => IF reproduction_task'.rt.state = "first_circle_auto"
                  THEN reproduction_task'.rt.state_start_time =
                           reproduction_task.rt.state_start_time
                  ELSE now - reproduction_task.rt.state_start_time
                           >= reproduction_task.rt.target_duration ]_vars

\* a task activated with a target of 400 ms has gone through all its states:
\* the circle was shown from 400 (after a start delay of 400) to 800 at
\* least, and the response is registered
C22_Witness ==
    /\ reproduction_task.rt.is_active
    /\ reproduction_task.rt.state = "response_waiting"
    /\ reproduction_task.rt.space_pressed
    /\ reproduction_task.ret = "True"
    /\ reproduction_task.rt.target_duration = 400
    /\ reproduction_task.rt.start_delay = 400
    /\ reproduction_task.rt.delay_start_time = 0
    /\ reproduction_task.rt.state_start_time >= 800

\* C23: the reproduced_duration that get_results reports is the time of the
\* confirming key press minus the time response_waiting was entered: the key
\* that enters response_waiting sets state_start_time to the time of that
\* key, no key or update changes it while the response is awaited, and the
\* confirming key stores now - state_start_time, with reproduction_error =
\* reproduced_duration - target_duration and reproduction_ratio =
\* reproduced_duration / target_duration; with target_duration = 1000 and
\* the key 1000 ms after response_waiting was entered the error is 0 and the
\* ratio is 1.
C23_ReproducedDuration ==
    [][ (RTSpace \/ RTUpdate) =>
          /\ (reproduction_task.rt.state # "response_waiting"
                /\ reproduction_task'.rt.state = "response_waiting")
               => reproduction_task'.rt.state_start_time = now
          /\ (reproduction_task.rt.state = "response_waiting"
                /\ reproduction_task.rt.is_active)
               => reproduction_task'.rt.state_start_time =
                      reproduction_task.rt.state_start_time
          /\ (RTSpace /\ reproduction_task'.ret = "True")
               => /\ reproduction_task.rt.state = "response_waiting"
                  /\ reproduction_get_results(reproduction_task'.rt).reproduced_duration
                         = now - reproduction_task.rt.state_start_time
                  /\ reproduction_get_results(reproduction_task'.rt).reproduction_error
                         = now - reproduction_task.rt.state_start_time
                               - reproduction_task.rt.target_duration
                  /\ (reproduction_task.rt.target_duration = 1000
                        /\ now - reproduction_task.rt.state_start_time = 1000)
                       => /\ reproduction_get_results(reproduction_task'.rt).reproduction_error = 0
                          /\ reproduction_get_results(reproduction_task'.rt).reproduction_ratio = One ]_vars

\* the response to a target of 1000 ms has just been registered 1000 ms after
\* response_waiting was entered, which was later than the activation
C23_Witness ==
    /\ reproduction_task.ret = "True"
    /\ reproduction_task.rt.space_pressed
    /\ reproduction_task.rt.target_duration = 1000
    /\ reproduction_task.rt.state_start_time > 1000
    /\ now = reproduction_task.rt.state_start_time + 1000
    /\ reproduction_get_results(reproduction_task.rt).reproduced_duration = 1000
    /\ reproduction_get_results(reproduction_task.rt).reproduction_ratio = One

\* the task takes no key: it is inactive, in one of its timed states, or its
\* response is registered
TakesNoKey ==
    \/ ~reproduction_task.rt.is_active
    \/ reproduction_task.rt.state \in {"in_start_delay", "first_circle_auto"}
    \/ reproduction_task.rt.space_pressed

\* C24: a space key-down changes the ReproductionTask only in its
\* interactive states: handle_event called while the task is inactive, in
\* in_start_delay, in first_circle_auto, or after the response is registered
\* returns False and leaves state, state_start_time, start_delay,
\* response_time and every other attribute as they are.
C24_KeysOnlyWhenInteractive ==
    [][ (RTSpace /\ TakesNoKey) =>
          /\ reproduction_task'.rt = reproduction_task.rt
          /\ reproduction_task'.ret = "False" ]_vars

\* a space key-down has just been handled, and ignored, while the circle of
\* a 1000 ms target is shown
C24_Witness ==
    /\ reproduction_task.ret = "False"
    /\ reproduction_task.rt.is_active
    /\ reproduction_task.rt.state = "first_circle_auto"
    /\ reproduction_task.rt.target_duration = 1000
    /\ reproduction_task.rt.start_delay \in StartDelays
    /\ now > reproduction_task.rt.state_start_time
    /\ ~reproduction_task.rt.space_pressed

\* ------------------------------------------------------------------------
\* TimingEstimationScreen: activate, handle_event, get_results and
\* deactivate called in any order while the clock advances

\* the clock advances in steps of TSClockStep ms up to TSMaxTime
TSClockStep == 250
TSMaxTime == 1500

\* the actual durations the screen is activated with, in ms
ActualDurations == {-250, 0, 500, 1000}

TSInit ==
    /\ trajectories_data = <<>>
    /\ blocks = <<>>
    /\ block_sequences = <<>>
    /\ current_block_index = 0
    /\ current_trial_index = 0
    /\ category_counters = <<>>
    /\ bm_call = [ret |-> NoValue, err |-> NoValue]
    /\ category = <<>>
    /\ decoded = <<>>
    /\ draw = Unused
    /\ mp = Unused
    /\ exp = Unused
    /\ traj = Unused
    /\ collector = Unused
    /\ reproduction_task = Unused
    /\ timing_screen = [ts |-> NewTimingScreen, ret |-> NoValue]
    /\ events = <<>>
    /\ now = 0

\* what a step of the TimingEstimationScreen leaves alone
notTS ==
    UNCHANGED <<bmVars, decVars, draw, mp, exp, traj, collector, reproduction_task, events>>

TSActivate ==
    /\ \E actual_duration \in ActualDurations :
           timing_screen' =
               [ts |-> timing_activate(timing_screen.ts, actual_duration, now),
                ret |-> NoValue]
    /\ UNCHANGED now
    /\ notTS

\* handle_event with a space key-down
TSSpace ==
    /\ timing_screen' =
           [ts |-> timing_handle_event(timing_screen.ts, now).ts,
            ret |-> IF timing_handle_event(timing_screen.ts, now).ret
                    THEN "True" ELSE "False"]
    /\ UNCHANGED now
    /\ notTS

TSDeactivate ==
    /\ timing_screen' = [ts |-> timing_deactivate(timing_screen.ts), ret |-> NoValue]
    /\ UNCHANGED now
    /\ notTS

TSTick ==
    /\ now < TSMaxTime
    /\ now' = now + TSClockStep
    /\ UNCHANGED timing_screen
    /\ notTS

TSNext ==
    \/ TSActivate
    \/ TSSpace
    \/ TSDeactivate
    \/ TSTick

SpecTS == TSInit /\ [][TSNext]_vars

\* the results of the screen after the step
ResultsAfter == timing_get_results(timing_screen'.ts)

\* C26: the estimation screen measures estimated_duration as the time of the
\* first space press minus its activation time: activate sets start_time to
\* the time of the call and nothing else changes it; the first space press
\* of the active screen returns True and stores now - start_time; a later
\* press, and a press while the screen is inactive, returns False and
\* changes nothing; the results are error = estimated - actual, abs_error =
\* |error| and ratio = estimated / actual, with ratio 0 when actual <= 0.
C26_EstimationMeasure ==
    [][ /\ IF TSActivate
           THEN /\ timing_screen'.ts.start_time = now
                /\ timing_screen'.ts.is_active
                /\ ~timing_screen'.ts.space_pressed
           ELSE timing_screen'.ts.start_time = timing_screen.ts.start_time
        /\ TSSpace =>
             IF timing_screen.ts.is_active /\ ~timing_screen.ts.space_pressed
             THEN /\ timing_screen'.ret = "True"
                  /\ timing_screen'.ts.space_pressed
                  /\ ResultsAfter.actual_duration = timing_screen.ts.actual_duration
                  /\ ResultsAfter.estimated_duration = now - timing_screen.ts.start_time
                  /\ ResultsAfter.estimation_error =
                         now - timing_screen.ts.start_time - timing_screen.ts.actual_duration
                  /\ ResultsAfter.estimation_error_abs >= 0
                  /\ ResultsAfter.estimation_error_abs \in
                         {ResultsAfter.estimation_error, 0 - ResultsAfter.estimation_error}
                  /\ IF timing_screen.ts.actual_duration <= 0
                     THEN ResultsAfter.estimation_ratio = Zero
                     ELSE ResultsAfter.estimation_ratio[1] * timing_screen.ts.actual_duration
                              = ResultsAfter.estimation_ratio[2]
                                    * (now - timing_screen.ts.start_time)
             ELSE /\ timing_screen'.ret = "False"
                  /\ timing_screen'.ts = timing_screen.ts ]_vars

\* a second press has just been ignored: the screen, activated at 250 with an
\* actual duration of 1000 ms, keeps the estimate of 500 ms of its first
\* press, error -500 and ratio 1/2
C26_Witness ==
    /\ timing_screen.ret = "False"
    /\ timing_screen.ts.is_active
    /\ timing_screen.ts.space_pressed
    /\ timing_screen.ts.start_time = 250
    /\ now > 750
    /\ timing_get_results(timing_screen.ts).estimated_duration = 500
    /\ timing_get_results(timing_screen.ts).estimation_error = -500
    /\ timing_get_results(timing_screen.ts).estimation_error_abs = 500
    /\ timing_get_results(timing_screen.ts).estimation_ratio = Half

\* the experiment is in a state other than Moving: the initial instruction,
\* the fixation preview, the start delay, the cross before the estimation,
\* the estimation screen or the reproduction task
NotMovingState ==
    \/ exp.waiting_for_initial_start
    \/ exp.waiting_for_movement_start
    \/ exp.in_start_delay
    \/ exp.showing_cross_for_star
    \/ exp.timing_screen.is_active
    \/ exp.reproduction_task.is_active

\* what the records of a collector say about space presses: trial number,
\* space_press_time and stopped_by_user of the open record and of every
\* completed record
PressMarks(dc) ==
    { <<r.trial_number, r.space_press_time, r.stopped_by_user>> :
          r \in {dc.current_trial_data}
                    \cup {dc.all_trials_data[i] : i \in 1..Len(dc.all_trials_data)} }

AutoFinishedAndSettled ==
    /\ exp.running
    /\ ~exp.waiting_for_initial_start
    /\ ~exp.waiting_for_movement_start
    /\ ~exp.in_start_delay
    /\ mp # NoPoint
    /\ mp.movement_start_time # NoTime
    /\ mp.is_finished
    /\ mp.finished_timer >= mp.movement_start_time
    /\ ~mp.stopped_by_user
    /\ should_switch_to_next(mp, now)

OcclusionOnly ==
    /\ exp.current_task.has_trajectory
    /\ ~exp.current_task.timing_estimation
    /\ ~exp.current_task.reproduction_task

\* the step completes the record of the trial or advances the cursor of the
\* BlockManager
Advances ==
    \/ Len(exp'.data_collector.all_trials_data) > Len(exp.data_collector.all_trials_data)
    \/ <<current_block_index', current_trial_index'>>
           # <<current_block_index, current_trial_index>>

ExpFairInit ==
    /\ trajectories_data \in {(OcclusionCode :> 1), (OcclusionCode :> 2)}
    /\ blocks = <<[trajectories_category |-> Sequential]>>
    /\ block_sequences = BuildBlockSequences(trajectories_data, blocks)
    /\ current_block_index = 0
    /\ current_trial_index = 0
    /\ category_counters = [c \in DOMAIN trajectories_data |-> 0]
    /\ bm_call = [ret |-> NoValue, err |-> NoValue]
    /\ category = <<>>
    /\ decoded = <<>>
    /\ draw = Unused
    /\ \E W \in {NewExperiment(loaded, 0) : loaded \in LoadResults} :
           /\ exp = W.e
           /\ mp = W.m
    /\ traj = Unused
    /\ collector = Unused
    /\ reproduction_task = Unused
    /\ timing_screen = Unused
    /\ events = <<>>
    /\ now = 0

\* a pass of the loop would change the state: ENABLED <<LoopUpdate>>_vars
\* written as a state predicate
PassChangesState ==
    /\ Running
    /\ \E loaded \in LoadResults :
           [UpdateStates(World, loaded, now) EXCEPT !.e.last_event = NoValue] # World

\* the run loop keeps running: as long as run() has not ended, a pass of the
\* loop is made again and again (weak fairness of LoopUpdate, with its
\* enabling condition spelled out) and the clock advances
SpecExpFair ==
    /\ ExpFairInit
    /\ [][ExpNext]_vars
    /\ ([]<>(~PassChangesState) \/ []<><<LoopUpdate>>_vars)
    /\ WF_vars(ExpTick)

\* the record of the open trial is among the completed records
TrialRecorded ==
    \E i \in 1..Len(exp.data_collector.all_trials_data) :
        exp.data_collector.all_trials_data[i].trial_number
            = exp.data_collector.current_trial_data.trial_number

MaxPending == 2

\* the key-down events a pass may find in the queue: space keys, or the
\* escape key
PendingKeys ==
    {[i \in 1..n |-> "K_SPACE"] : n \in 0..MaxPending} \cup {<<"K_ESCAPE">>}

\* the handling of one key-down event: handle_special_screens, then the
\* KeyHandler
HandleKey(W, key, loaded, delay, t) ==
    IF key = "K_SPACE"
    THEN [SpaceKeyDown(W, loaded, delay, t) EXCEPT !.e.last_event = key]
    ELSE [W EXCEPT !.e.running = FALSE, !.e.last_event = key]

\* `for event in pygame.event.get()`: the events in their order; an
\* exception ends the loop
RECURSIVE HandleKeys(_, _, _, _, _)
HandleKeys(W, keys, loaded, delay, t) ==
    IF keys = <<>> \/ W.e.err # NoValue THEN W
    ELSE HandleKeys(HandleKey(W, Head(keys), loaded, delay, t),
                    Tail(keys), loaded, delay, t)

\* the updates of a pass; an exception raised by the handling of a key has
\* left run() before them
UpdatesOfPass(W, loaded, t) ==
    IF W.e.err # NoValue THEN W ELSE UpdateStates(W, loaded, t)

\* a pass that makes its updates before it handles its events
RunPass_UpdatesFirst(W, keys, loaded, delay, t) ==
    HandleKeys([UpdateStates(W, loaded, t) EXCEPT !.e.last_event = NoValue],
               keys, loaded, delay, t)

\* one pass of the loop of run(): the events, then the updates
RunPass(W, keys, loaded, delay, t) ==
    UpdatesOfPass(HandleKeys([W EXCEPT !.e.last_event = NoValue],
                             keys, loaded, delay, t),
                  loaded, t)

\* the trajectory libraries the passes are run with
PassLibraries ==
    { (OcclusionCode :> 1),
      (EstimationCode :> 1),
      (ReproductionCode :> 1),
      (OcclusionCode :> 1) @@ (ReproductionCode :> 1) }

PassInit ==
    /\ trajectories_data \in PassLibraries
    /\ blocks = <<[trajectories_category |-> Sequential]>>
    /\ block_sequences = BuildBlockSequences(trajectories_data, blocks)
    /\ current_block_index = 0
    /\ current_trial_index = 0
    /\ category_counters = [c \in DOMAIN trajectories_data |-> 0]
    /\ bm_call = [ret |-> NoValue, err |-> NoValue]
    /\ category = <<>>
    /\ decoded = <<>>
    /\ draw = Unused
    /\ \E W \in {NewExperiment(loaded, 0) : loaded \in LoadResults} :
           /\ exp = W.e
           /\ mp = W.m
    /\ traj = Unused
    /\ collector = Unused
    /\ reproduction_task = Unused
    /\ timing_screen = Unused
    /\ events = <<>>
    /\ now = 0

\* the world a pass leaves
PassBecomes(W) ==
    /\ exp' = W.e
    /\ mp' = W.m
    /\ current_block_index' = W.bi
    /\ current_trial_index' = W.ti

\* a pass of the loop: pygame.event.get() returns the pending key events,
\* they are handled, the updates follow
Pass ==
    /\ Running
    /\ exp.running
    /\ events' \in PendingKeys
    /\ \E loaded \in LoadResults, delay \in StartDelays :
           PassBecomes(RunPass(World, events', loaded, delay, now))
    /\ UNCHANGED <<trajectories_data, blocks, block_sequences, category_counters,
                   bm_call, decVars, draw, traj, collector, reproduction_task,
                   timing_screen, now>>

PassNext ==
    \/ Pass
    \/ ExpTick

SpecPass == PassInit /\ [][PassNext]_vars

\* the key events of the pass are space key-downs, one at least
SpacesOnly(keys) ==
    /\ keys # <<>>
    /\ \A i \in 1..Len(keys) : keys[i] = "K_SPACE"

\* the update of this pass would take the moving point to the end of its
\* path
ReachesEndThisPass ==
    /\ mp # NoPoint
    /\ mp.is_moving
    /\ exp.current_task.has_trajectory
    /\ ~exp.point_delay.is_in_start_delay
    /\ update(mp, now).is_finished

\* the update of this pass would end a timed state of the reproduction task
TimedStateExpires ==
    /\ exp.reproduction_task.is_active
    /\ exp.reproduction_task.state \in {"in_start_delay", "first_circle_auto"}
    /\ reproduction_update(exp.reproduction_task, now).state
           # exp.reproduction_task.state

\* the update of this pass would end the start delay of the moving point
StartDelayExpires ==
    /\ exp.in_start_delay
    /\ exp.point_delay.is_in_start_delay
    /\ now - exp.point_delay.delay_start_time >= exp.point_delay.start_delay

KeyRepeatGap == 10
\* the clock of this specification stops here
KeysMaxTime == 800

\* two space key-down events KeyRepeatGap ms apart, each given to
\* handle_event at its own clock value
KeyBounce ==
    /\ now < KeysMaxTime
    /\ \E delay \in StartDelays :
           LET first == reproduction_handle_event(reproduction_task.rt, delay, now)
               second == reproduction_handle_event(first.rt, delay, now + KeyRepeatGap)
           IN  reproduction_task' =
                   [rt |-> second.rt,
                    ret |-> IF first.ret \/ second.ret THEN "True" ELSE "False"]
    /\ now' = now + KeyRepeatGap
    /\ notRT

KeysTick ==
    /\ now < KeysMaxTime
    /\ now' = now + RTClockStep
    /\ UNCHANGED reproduction_task
    /\ notRT

KeysNext ==
    \/ RTActivate
    \/ KeyBounce
    \/ RTUpdate
    \/ KeysTick

SpecKeys == RTInit /\ [][KeysNext]_vars

\* C31: two space key-down events 10 ms apart (inside the debounce window)
\* count as one confirm: given to the task while it shows the second cross
\* they take it to response_waiting and do not register the response as well.
C31_Debounce ==
    [][ (/\ now' = now + KeyRepeatGap
         /\ reproduction_task.rt.is_active
         /\ reproduction_task.rt.state = "second_cross_waiting")
          => /\ reproduction_task'.rt.state = "response_waiting"
             /\ ~reproduction_task'.rt.space_pressed ]_vars

\* ---------------------------------------------------------------------------
\* Shutdown: what cleanup hands to save_experiment_data
\* ---------------------------------------------------------------------------

\* DataCollector.get_all_data: the list cleanup gives to save_experiment_data
get_all_data(dc) == dc.all_trials_data

\* a trial is in progress: start_new_trial has made the record and
\* complete_trial has not yet appended it
InProgress(dc) ==
    /\ dc.current_trial_data.trial_number # Missing
    /\ \A i \in 1..Len(dc.all_trials_data) :
           dc.all_trials_data[i].trial_number # dc.current_trial_data.trial_number

ActiveSubMachines ==
    (IF exp.showing_cross_for_star THEN 1 ELSE 0)
        + (IF exp.timing_screen.is_active THEN 1 ELSE 0)
        + (IF exp.reproduction_task.is_active THEN 1 ELSE 0)

\* where the point is on its path
PointPlace(m) == <<m.current_segment, m.progress, m.current_position>>

----------------------------------------------------------------------------
(* The TrajectoryManager of trajectory.py: the library it was built with,  *)
(* the current trajectory, and the arguments of the last load_trajectory.  *)

\* a category of the library stores at most MaxStored trajectories
MaxStored == 2

\* block and category names: stored ones and one that is stored nowhere
BlockNames == {"block1", "nowhere"}
CategoryNames == {"C1S1D1", "C2S2D2", "missing"}

\* what a category may hold at one index: a list of point dictionaries
\* (points are the well-formed ones, the others are skipped), one point
\* dictionary, or something else
StoredPool ==
    { [kind |-> "list", points |-> << <<0, 0>>, <<3, 0>> >>],
      [kind |-> "list", points |-> << <<0, 0>>, <<3, 0>>, <<3, 4>> >>],
      [kind |-> "dict", points |-> << <<3, 4>> >>],
      [kind |-> "other", points |-> <<>>] }

\* the value of a category: a list of 0..MaxStored stored items, or a value
\* that is not a list
CategoryValues ==
    { [kind |-> "list", items |-> s] :
          s \in UNION { [1..n -> StoredPool] : n \in 0..MaxStored } }
        \cup { [kind |-> "other", items |-> <<>>] }

\* the libraries of the model: block1 with one or two of the stored
\* categories
LoadLibraries ==
    { ("block1" :> (("C1S1D1" :> v))) : v \in CategoryValues }
        \cup { ("block1" :> (("C1S1D1" :> v) @@ ("C2S2D2" :> [kind |-> "list", items |-> <<>>]))) :
                   v \in CategoryValues }

\* the indices load_trajectory is called with
LoadIndices == (0 - (MaxStored + 1))..(MaxStored + 1)

\* TrajectoryManager.__init__
NewTrajectoryManager(data) ==
    [trajectories_data |-> data,
     current_trajectory |-> <<>>,
     args |-> <<>>,
     ret |-> <<>>,
     err |-> NoValue]

\* trajectories[index] of Python: a negative index counts from the end, an
\* index outside -len..len-1 raises IndexError
ListItem(items, index) ==
    IF index >= Len(items) \/ index < 0 - Len(items)
    THEN [item |-> <<>>, err |-> "IndexError"]
    ELSE [item |-> << items[IF index >= 0 THEN index + 1 ELSE Len(items) + index + 1] >>,
          err |-> NoValue]

\* the body of the try block of load_trajectory: the points of the
\* Trajectory it builds, or the exception raised in it
LoadedPoints(data, block_name, cat, index) ==
    IF ~(block_name \in DOMAIN data /\ cat \in DOMAIN data[block_name])
    THEN [points |-> <<>>, err |-> NoValue]
    ELSE LET trajectories == data[block_name][cat]
             got == ListItem(trajectories.items, index)
         IN  IF trajectories.kind # "list" \/ trajectories.items = <<>>
             THEN [points |-> <<>>, err |-> NoValue]
             ELSE IF index >= Len(trajectories.items)
             THEN [points |-> <<>>, err |-> NoValue]
             ELSE IF got.err # NoValue
             THEN [points |-> <<>>, err |-> got.err]
             ELSE IF got.item[1].kind \in {"list", "dict"}
             THEN [points |-> got.item[1].points, err |-> NoValue]
             ELSE [points |-> <<>>, err |-> NoValue]

\* TrajectoryManager.load_trajectory: an exception of the body is caught and
\* gives the empty Trajectory
load_trajectory(tm, block_name, cat, index) ==
    LET body == LoadedPoints(tm.trajectories_data, block_name, cat, index)
        t == IF body.err # NoValue THEN NewTrajectory(<<>>)
             ELSE NewTrajectory(body.points)
    IN  [tm EXCEPT !.current_trajectory = <<t>>,
                   !.args = <<block_name, cat, index>>,
                   !.ret = <<t>>,
                   !.err = NoValue]

\* TrajectoryManager.has_trajectory
has_trajectory(tm) ==
    /\ tm.current_trajectory # <<>>
    /\ Len(tm.current_trajectory[1].points) >= 2

LoadInit ==
    /\ trajectories_data = <<>>
    /\ blocks = <<>>
    /\ block_sequences = <<>>
    /\ current_block_index = 0
    /\ current_trial_index = 0
    /\ category_counters = <<>>
    /\ bm_call = [ret |-> NoValue, err |-> NoValue]
    /\ category = <<>>
    /\ decoded = <<>>
    /\ draw = Unused
    /\ mp = Unused
    /\ exp = Unused
    /\ traj \in { NewTrajectoryManager(data) : data \in LoadLibraries }
    /\ collector = Unused
    /\ reproduction_task = Unused
    /\ timing_screen = Unused
    /\ events = <<>>
    /\ now = 0

LoadTrajectory ==
    /\ \E block_name \in BlockNames, cat \in CategoryNames, index \in LoadIndices :
           traj' = load_trajectory(traj, block_name, cat, index)
    /\ UNCHANGED notTraj

LoadNext == LoadTrajectory

SpecLoad == LoadInit /\ [][LoadNext]_vars

\* the arguments of the last call name a stored trajectory: block and
\* category are in the library and the index is one of 0..len-1
DesignatesStored ==
    /\ traj.args # <<>>
    /\ traj.args[1] \in DOMAIN traj.trajectories_data
    /\ traj.args[2] \in DOMAIN traj.trajectories_data[traj.args[1]]
    /\ traj.trajectories_data[traj.args[1]][traj.args[2]].kind = "list"
    /\ traj.args[3] >= 0
    /\ traj.args[3] < Len(traj.trajectories_data[traj.args[1]][traj.args[2]].items)

\* C34: load_trajectory never raises, and called with a block name, category
\* and index (negative and too large ones included) that name no stored
\* trajectory it returns the empty Trajectory (no points, total_length 0),
\* after which has_trajectory() is false.
C34_LoadNeverRaises ==
    traj.args # <<>>
        => /\ traj.err = NoValue
           /\ ~DesignatesStored
                 => /\ traj.ret[1].points = <<>>
                    /\ traj.ret[1].total_length = 0
                    /\ ~has_trajectory(traj)

\* ---------------------------------------------------------------------------
\* The run loop with a participant who keeps pressing the confirm key
\* ---------------------------------------------------------------------------

\* the loop without the Escape key
TermNext ==
    \/ SpaceKey
    \/ LoopUpdate
    \/ ExpTick

\* as long as run() has not ended the participant presses the space key
\* again and again, a pass of the loop is made again and again, and the
\* clock advances
SpecTerm ==
    /\ ExpInit
    /\ [][TermNext]_vars
    /\ ([]<>(~Running) \/ []<><<SpaceKey>>_vars)
    /\ ([]<>(~PassChangesState) \/ []<><<LoopUpdate>>_vars)
    /\ WF_vars(ExpTick)

\* a timed state whose time has not yet come
TimerPending ==
    \/ exp.in_start_delay
    \/ exp.reproduction_task.is_active
          /\ exp.reproduction_task.state \in {"in_start_delay", "first_circle_auto"}
    \/ mp # NoPoint /\ mp.is_finished /\ ~should_switch_to_next(mp, now)

\* the trial in hand is one with a path and the look-up has given no path of
\* two points or more
NoPathLoaded ==
    /\ exp.current_task.has_trajectory
    /\ (exp.trajectory = <<>> \/ Len(exp.trajectory[1]) < 2)

RecordedBlock ==
    IF is_experiment_complete THEN Len(blocks) - 1 ELSE current_block_index

\* the number of trials of that block that have been left behind
TrialsLeftBehind ==
    IF is_experiment_complete THEN Len(block_sequences[Len(blocks)])
    ELSE current_trial_index

UpdateCalled == mp' = update(Called, now)

\* the point has reached the end of its path on its own
ReachedEnd(m) == m.is_finished /\ ~m.stopped_by_user

\* C37: after every update progress is in [0, 1) and current_segment is in
\* 0..(number of points - 1); an update that reaches the end of the last
\* segment sets is_finished, clears is_moving, puts current_position on the
\* last point and makes the point visible; an update of a finished point
\* leaves position, segment and progress as they are.
C37_UpdateKeepsPointOnPath ==
    [][ UpdateCalled
          => /\ mp'.err = NoValue
             /\ RatGeq(mp'.progress, Zero)
             /\ RatLess(mp'.progress, One)
             /\ 0 <= mp'.current_segment
             /\ mp'.current_segment <= Len(mp'.trajectory) - 1
             /\ (~mp.is_finished /\ ReachedEnd(mp'))
                   => /\ ~mp'.is_moving
                      /\ mp'.current_position = Pt(mp'.trajectory[Len(mp'.trajectory)])
                      /\ mp'.is_visible
             /\ mp.is_finished => PointPlace(mp') = PointPlace(mp) ]_vars

\* ---------------------------------------------------------------------------
\* The point before its movement starts
\* ---------------------------------------------------------------------------

\* the fixation preview (waiting for the confirm key) or the start delay
BeforeMoving == exp.waiting_for_movement_start \/ exp.in_start_delay

\* a point at the start of its path
AtStart(m) ==
    /\ m.current_segment = 0
    /\ m.progress = Zero
    /\ Len(m.trajectory) > 0 => m.current_position = Pt(m.trajectory[1])

\* the record of the trial gets a movement start time in this step
MovementStartWritten ==
    /\ exp'.data_collector.current_trial_data.movement_start_time
           # exp.data_collector.current_trial_data.movement_start_time
    /\ exp'.data_collector.current_trial_data.movement_start_time \notin {NoTime, Missing}

----------------------------------------------------------------------------
(* The ReproductionTask and the TimingEstimationScreen used trial after    *)
(* trial: both objects live as long as the Experiment and are activated    *)
(* again for every trial; events holds the name and the argument of the    *)
(* last call.                                                              *)

\* the clock of this specification stops here
SubMaxTime == 600

SubInit ==
    /\ trajectories_data = <<>>
    /\ blocks = <<>>
    /\ block_sequences = <<>>
    /\ current_block_index = 0
    /\ current_trial_index = 0
    /\ category_counters = <<>>
    /\ bm_call = [ret |-> NoValue, err |-> NoValue]
    /\ category = <<>>
    /\ decoded = <<>>
    /\ draw = Unused
    /\ mp = Unused
    /\ exp = Unused
    /\ traj = Unused
    /\ collector = Unused
    /\ reproduction_task = [rt |-> NewReproductionTask, ret |-> NoValue]
    /\ timing_screen = [ts |-> NewTimingScreen, ret |-> NoValue]
    /\ events = <<>>
    /\ now = 0

\* what a call on one of the two objects leaves alone
notSub == UNCHANGED <<bmVars, decVars, draw, mp, exp, traj, collector, now>>

SubRTActivate ==
    /\ \E target_duration \in TargetDurations :
           /\ reproduction_task' =
                  [rt |-> reproduction_activate(reproduction_task.rt, target_duration, now),
                   ret |-> NoValue]
           /\ events' = <<"ReproductionTask.activate", target_duration>>
    /\ UNCHANGED timing_screen
    /\ notSub

SubRTSpace ==
    /\ \E delay \in StartDelays :
           reproduction_task' =
               [rt |-> reproduction_handle_event(reproduction_task.rt, delay, now).rt,
                ret |-> IF reproduction_handle_event(reproduction_task.rt, delay, now).ret
                        THEN "True" ELSE "False"]
    /\ events' = <<"ReproductionTask.handle_event", 0>>
    /\ UNCHANGED timing_screen
    /\ notSub

SubRTUpdate ==
    /\ reproduction_task' =
           [rt |-> reproduction_update(reproduction_task.rt, now), ret |-> NoValue]
    /\ events' = <<"ReproductionTask.update", 0>>
    /\ UNCHANGED timing_screen
    /\ notSub

SubRTDeactivate ==
    /\ reproduction_task' =
           [rt |-> reproduction_deactivate(reproduction_task.rt), ret |-> NoValue]
    /\ events' = <<"ReproductionTask.deactivate", 0>>
    /\ UNCHANGED timing_screen
    /\ notSub

SubTSActivate ==
    /\ \E actual_duration \in ActualDurations :
           /\ timing_screen' =
                  [ts |-> timing_activate(timing_screen.ts, actual_duration, now),
                   ret |-> NoValue]
           /\ events' = <<"TimingEstimationScreen.activate", actual_duration>>
    /\ UNCHANGED reproduction_task
    /\ notSub

SubTSSpace ==
    /\ timing_screen' =
           [ts |-> timing_handle_event(timing_screen.ts, now).ts,
            ret |-> IF timing_handle_event(timing_screen.ts, now).ret
                    THEN "True" ELSE "False"]
    /\ events' = <<"TimingEstimationScreen.handle_event", 0>>
    /\ UNCHANGED reproduction_task
    /\ notSub

SubTSDeactivate ==
    /\ timing_screen' = [ts |-> timing_deactivate(timing_screen.ts), ret |-> NoValue]
    /\ events' = <<"TimingEstimationScreen.deactivate", 0>>
    /\ UNCHANGED reproduction_task
    /\ notSub

SubTick ==
    /\ now < SubMaxTime
    /\ now' = now + RTClockStep
    /\ UNCHANGED <<bmVars, decVars, draw, mp, exp, apiVars>>

SubNext ==
    \/ SubRTActivate
    \/ SubRTSpace
    \/ SubRTUpdate
    \/ SubRTDeactivate
    \/ SubTSActivate
    \/ SubTSSpace
    \/ SubTSDeactivate
    \/ SubTick

SpecSub == SubInit /\ [][SubNext]_vars

\* ReproductionTask.is_complete and TimingEstimationScreen.is_complete
reproduction_is_complete(rt) == rt.space_pressed
timing_is_complete(ts) == ts.space_pressed

\* C39: whatever was done with the objects before (a finished run, a run
\* left half-way, a deactivate or none), ReproductionTask.activate(d) leaves
\* the task active in first_cross_waiting with space_pressed false,
\* response_time 0, start_delay 0 and target_duration d, and
\* TimingEstimationScreen.activate(a) leaves the screen active with
\* space_pressed false, press_time 0, actual_duration a and its clock started
\* now; is_complete() is false right after either activate and get_results
\* shows nothing of the run before.
C39_ActivateStartsAfresh ==
    [][ /\ \A d \in TargetDurations :
               (events' = <<"ReproductionTask.activate", d>> /\ now' = now)
                   => /\ reproduction_task'.rt.is_active
                      /\ reproduction_task'.rt.state = "first_cross_waiting"
                      /\ reproduction_task'.rt.state_start_time = now
                      /\ ~reproduction_is_complete(reproduction_task'.rt)
                      /\ reproduction_get_results(reproduction_task'.rt)
                             = [target_duration |-> d,
                                reproduced_duration |-> 0,
                                reproduction_error |-> 0 - d,
                                reproduction_error_abs |-> Abs(d),
                                reproduction_ratio |-> Zero,
                                start_delay |-> 0]
        /\ \A a \in ActualDurations :
               (events' = <<"TimingEstimationScreen.activate", a>> /\ now' = now)
                   => /\ timing_screen'.ts.is_active
                      /\ timing_screen'.ts.start_time = now
                      /\ ~timing_is_complete(timing_screen'.ts)
                      /\ timing_get_results(timing_screen'.ts)
                             = [actual_duration |-> a,
                                estimated_duration |-> 0,
                                estimation_error |-> 0 - a,
                                estimation_error_abs |-> Abs(a),
                                estimation_ratio |-> Zero] ]_vars

\* the task activated again after a run that had got its answer: the start
\* delay of that run was chosen after tick 0 and the clock has moved on
C39_Witness ==
    /\ events # <<>>
    /\ events[1] = "ReproductionTask.activate"
    /\ reproduction_task.rt.delay_start_time > 0
    /\ reproduction_task.rt.state_start_time > reproduction_task.rt.delay_start_time
    /\ timing_screen.ts.space_pressed

----------------------------------------------------------------------------
(* The duration handed to the estimation screen.                           *)

\* how long the point of the trial has moved: from start_movement to the
\* stop by the user or the end of the path
MotionDuration(m) == m.finished_timer - m.movement_start_time

\* the step that activates the estimation screen
EstimationActivated ==
    /\ exp.err = NoValue /\ exp'.err = NoValue
    /\ ~exp.timing_screen.is_active
    /\ exp'.timing_screen.is_active

====
